---- MODULE Spec2Model ----
(***************************************************************************)
(* Model of the annotation viewer: the selection-to-text resolver          *)
(* (text-selection-utils.ts), the annotation geometry extractor            *)
(* (pdf-annotation-extractor.ts), the PdfViewer component with its render  *)
(* pipeline, selection gesture and annotation overlay, and the pdfStore.   *)
(*                                                                         *)
(* Numbers: coordinates are integers; a quotient a / b is kept as the      *)
(* exact fraction <<a, b>> (see Div), so that equalities between           *)
(* normalized values are decided exactly.                                  *)
(***************************************************************************)
EXTENDS Integers, Sequences, FiniteSets, TLC

VARIABLES
    \* ---- getTextFromSelection (one call) ----
    selItems,      \* textContent.items returned by pdfPage.getTextContent()
    selViewport,   \* viewport argument {width, height, scale}
    selGesture,    \* [startX, startY, endX, endY]
    selThrows,     \* getTextContent() rejects
    selTextItems,  \* the local array textItems when the call returns
    selResult,     \* what the call resolved to (NotCalled before the call)
    \* ---- pdfStore ----
    stNumPages,        \* pdfMeta.num_pages, 0 while pdfDocument is null
    stLoading,         \* isLoading
    stError,           \* error ("" for null)
    stViewer,          \* viewerState
    stAnnotations,     \* annotations (the flat list)
    stByPage,          \* annotationsByPage: a function whose domain is the keys present
    stIdsMade,         \* number of ids addUserAnnotation has generated
    stLastOp,          \* the store action called last, its annotation id and the
                       \* annotation that id named when it was called
    \* ---- extractAnnotationsFromPdfJs (one call) ----
    exNumPages,        \* pdfDocument.numPages
    exPageNumber,      \* pageNumber of the page loop
    exPageSize,        \* pageSize = page.getViewport({scale: 1.0}) of the current page
    exPc,              \* "loop": at the head of the page loop, "records": in the
                       \* record loop of the current page, "done": returned
    exAnnotations,     \* annotations
    exSources,         \* for each entry of annotations, the record and the page
                       \* size it was built from
    exErrors,          \* errors
    \* ---- PdfViewer: the render pipeline ----
    vwFn,              \* identity of the renderPage function of the last render
                       \* (useCallback returns a new one when its deps change)
    vwFnDeps,          \* the deps [pdfDocument, viewerState.scale] it was made with
    vwCommitted,       \* the values the effects' deps had at the last commit
    vwDirty,           \* a re-render of the component is scheduled
    vwTaskOf,          \* renderPage.currentRenderTask of each function object
                       \* (0 for null), indexed by function identity
    vwCalls,           \* the renderPage invocations, in call order
    vwTasks,           \* the render tasks page.render() returned, in start order
    isRendering,
    pageViewport,
    currentPage,       \* the page object, as its page number (0 for null)
    currentViewport,
    \* ---- PdfViewer: the selection gesture ----
    isSelecting,
    selectionStart,
    selectionEnd,
    vwResolutions,     \* the handleMouseUp invocations that reached the await
    vwGesture,         \* number of handleMouseDown calls that began a gesture
    showCreateDialog,
    selectedTextData,
    \* ---- AnnotationOverlay ----
    ovViewport,        \* the viewport prop
    canvasDisplaySize, \* the overlay's own state: null or the last measured size
    canvasRect,        \* the canvas's getBoundingClientRect() size as laid out now
                       \* (null while no canvas is shown)
    ovRects,           \* the rectangles of the overlay's last render, in order
    ovClicked,         \* the rectangle whose onClick ran last (null if none)
    \* ---- normalizeCoordinates / normalizeBbox / denormalizeCoordinates ----
    coBbox,            \* the bbox argument
    coPageWidth,       \* the pageWidth argument
    coPageHeight,      \* the pageHeight argument
    coCalled,          \* the normalizing function that was called ("none" before)
    coThrown,          \* the error that call threw ("none" if it returned)
    coNormalized,      \* the box that call returned (null if none)
    coDenormalized,    \* what denormalizeCoordinates returned for it (null before)
    \* PdfLoader (src/components/PdfLoader.tsx)
    ldCalls,           \* the handleFileLoad calls made: where each one is awaiting
    \* CreateAnnotationDialog (part_001)
    dlgPage            \* the dialog's page state (line 37)

selVars == <<selItems, selViewport, selGesture, selThrows, selTextItems, selResult>>

storeVars == <<stNumPages, stLoading, stError, stViewer, stAnnotations, stByPage,
               stIdsMade, stLastOp>>

exVars == <<exNumPages, exPageNumber, exPageSize, exPc, exAnnotations, exSources, exErrors>>

renderVars == <<vwFn, vwFnDeps, vwCommitted, vwDirty, vwTaskOf, vwCalls, vwTasks,
                isRendering, pageViewport, currentPage, currentViewport>>

gestureVars == <<isSelecting, selectionStart, selectionEnd, vwResolutions, vwGesture,
                 showCreateDialog, selectedTextData>>

overlayVars == <<ovViewport, canvasDisplaySize, canvasRect, ovRects, ovClicked>>

coordVars == <<coBbox, coPageWidth, coPageHeight, coCalled, coThrown, coNormalized,
               coDenormalized>>

loadVars == <<ldCalls>>

dialogVars == <<dlgPage>>

vars == <<selVars, storeVars, exVars, renderVars, gestureVars, overlayVars, coordVars,
          loadVars, dialogVars>>

----------------------------------------------------------------------------
(* Arithmetic helpers                                                      *)

Min(a, b) == IF a < b THEN a ELSE b
Max(a, b) == IF a > b THEN a ELSE b
Abs(a) == IF a < 0 THEN -a ELSE a

\* a / b of the source, as an exact fraction
Div(a, b) == <<a, b>>
\* equality of two fractions with non-zero denominators
RatEq(p, q) == p[1] * q[2] = q[1] * p[2]
\* p <= q for fractions with positive denominators
RatLeq(p, q) == p[1] * q[2] <= q[1] * p[2]

SetMin(S) == CHOOSE m \in S : \A e \in S : m <= e
SetMax(S) == CHOOSE m \in S : \A e \in S : m >= e

Range(s) == {s[i] : i \in 1..Len(s)}

\* All sequences over S of length at most n
SeqsUpTo(S, n) == UNION {[1..k -> S] : k \in 0..n}

Null == [kind |-> "null"]
NotCalled == [kind |-> "none"]

----------------------------------------------------------------------------
(* text-selection-utils.ts                                                 *)

\* Bounds and input sets of the resolver's check
MaxItems == 3
PageW == 40
PageH == 40
Scales == {1, 2}
SelXs == {0, 7, 8, 40}
SelYs == {0, 40}

\* Raw text items as pdf.js hands them over: transform[4], transform[5],
\* width, height, fontSize and str.
TextItem(tx4, tx5, w, h, fs, s) ==
    [tx4 |-> tx4, tx5 |-> tx5, width |-> w, height |-> h, fontSize |-> fs, str |-> s]

ItemPool ==
    { TextItem(0, 40, 10, 10, 0, "Hello"),
      TextItem(20, 40, 10, 10, 0, "World"),
      TextItem(33, 40, 5, 10, 0, "again"),
      TextItem(0, 20, 10, 0, 10, "next"),
      TextItem(20, 36, 0, 10, 0, "thin"),
      TextItem(12, 40, 10, 10, 0, " "),
      TextItem(10, 35, 10, 10, 0, "five"),
      TextItem(0, 30, 10, 10, 0, "ten") }

\* item.str.trim() === ''
IsBlank(s) == s \in {"", " "}

\* lines 50-63
getIntersectionArea(rect1, rect2) ==
    LET left == Max(rect1.x, rect2.x)
        right == Min(rect1.x + rect1.width, rect2.x + rect2.width)
        top == Max(rect1.y, rect2.y)
        bottom == Min(rect1.y + rect1.height, rect2.y + rect2.height)
    IN IF left < right /\ top < bottom
       THEN (right - left) * (bottom - top)
       ELSE 0

\* lines 82-92
SelectionRect(g) ==
    LET selectionLeft == Min(g.startX, g.endX)
        selectionRight == Max(g.startX, g.endX)
        selectionTop == Min(g.startY, g.endY)
        selectionBottom == Max(g.startY, g.endY)
    IN [x |-> selectionLeft, y |-> selectionTop,
        width |-> selectionRight - selectionLeft,
        height |-> selectionBottom - selectionTop]

\* lines 118-151: the item's rectangle in viewport pixels
ItemRect(item, viewport) ==
    LET scale == viewport.scale
        heightPoints == IF item.height # 0 THEN item.height ELSE item.fontSize
        pdfTextBottom == item.tx5 - heightPoints
        pdfTextTop == item.tx5
        viewportTextTop == viewport.height - (pdfTextTop * scale)
        viewportTextBottom == viewport.height - (pdfTextBottom * scale)
    IN [x |-> item.tx4 * scale,
        y |-> viewportTextTop,
        width |-> item.width * scale,
        height |-> viewportTextBottom - viewportTextTop]

\* line 155: itemArea = width * height, height = heightPoints * scale
ItemArea(item, viewport) ==
    LET heightPoints == IF item.height # 0 THEN item.height ELSE item.fontSize
    IN (item.width * viewport.scale) * (heightPoints * viewport.scale)

\* line 159: the guard under which the division of line 160 is executed
RatioComputed(item, viewport, g) ==
    /\ getIntersectionArea(SelectionRect(g), ItemRect(item, viewport)) > 0
    /\ ItemArea(item, viewport) > 0

\* line 160: overlapRatio = intersectionArea / itemArea
OverlapRatio(item, viewport, g) ==
    Div(getIntersectionArea(SelectionRect(g), ItemRect(item, viewport)),
        ItemArea(item, viewport))

\* a threshold that leaves out a run overlapped exactly 30%
MeetsThresholdExclusive(ratio) == 10 * ratio[1] > 3 * ratio[2]

\* line 163: overlapRatio >= 0.3
MeetsThreshold(ratio) == 10 * ratio[1] >= 3 * ratio[2]

\* lines 112-174: is raw item i pushed onto textItems
Included(item, viewport, g) ==
    /\ ~IsBlank(item.str)
    /\ RatioComputed(item, viewport, g)
    /\ MeetsThreshold(OverlapRatio(item, viewport, g))

\* lines 164-171
SelectedItem(item, viewport, i) ==
    LET r == ItemRect(item, viewport)
    IN [x |-> r.x, y |-> r.y, width |-> r.width, height |-> r.height,
        str |-> item.str, itemIndex |-> i]

\* lines 104-174: textItems before the sort
RECURSIVE CollectFrom(_, _, _, _)
CollectFrom(items, viewport, g, i) ==
    IF i > Len(items) THEN << >>
    ELSE (IF Included(items[i], viewport, g)
          THEN <<SelectedItem(items[i], viewport, i - 1)>>
          ELSE << >>) \o CollectFrom(items, viewport, g, i + 1)

CollectTextItems(items, viewport, g) == CollectFrom(items, viewport, g, 1)

\* lines 181-189: the comparator handed to textItems.sort
SortCompare(a, b) ==
    LET yDiff == a.y - b.y
    IN IF Abs(yDiff) > 5 THEN yDiff ELSE a.x - b.x

Perms(n) == {p \in [1..n -> 1..n] : \A i, j \in 1..n : p[i] = p[j] => i = j}

\* ECMAScript's "consistent comparator" over the elements being sorted
ConsistentComparator(s) ==
    LET n == Len(s)
        lt(i, j) == SortCompare(s[i], s[j]) < 0
        eq(i, j) == SortCompare(s[i], s[j]) = 0
        gt(i, j) == SortCompare(s[i], s[j]) > 0
    IN /\ \A i, j \in 1..n : eq(i, j) => eq(j, i)
       /\ \A i, j \in 1..n : lt(i, j) => gt(j, i)
       /\ \A i, j, k \in 1..n : eq(i, j) /\ eq(j, k) => eq(i, k)
       /\ \A i, j, k \in 1..n : lt(i, j) /\ lt(j, k) => lt(i, k)

\* Array.prototype.sort (line 181): the stable sorted order when the
\* comparator is consistent on the array; otherwise the order is
\* implementation-defined and every permutation is a possible outcome.
SortOutcomes(s) ==
    LET n == Len(s)
        sorted(p) == \A i, j \in 1..n : i < j =>
                        \/ SortCompare(s[p[i]], s[p[j]]) < 0
                        \/ SortCompare(s[p[i]], s[p[j]]) = 0 /\ p[i] < p[j]
        ps == IF ConsistentComparator(s) THEN {p \in Perms(n) : sorted(p)}
              ELSE Perms(n)
    IN {[i \in 1..n |-> s[p[i]]] : p \in ps}

\* line 197, for the item at 1-based position i > 1 (lastY is the previous item's y)
IsNewLine(sorted, i) == Abs(sorted[i].y - sorted[i - 1].y) > 5

\* line 198: (lastX + textItems[index - 1]?.width || 0), with
\* lastX = previous x + previous width (line 207)
PrevEndOperand(sorted, i) ==
    LET lastX == sorted[i - 1].x + sorted[i - 1].width
        v == lastX + sorted[i - 1].width
    IN IF v = 0 THEN 0 ELSE v

\* line 198
NeedsSpace(sorted, i) ==
    /\ ~IsNewLine(sorted, i)
    /\ sorted[i].x - PrevEndOperand(sorted, i) > 2

\* lines 200-202: what is pushed before the string of the item at position i
Separator(sorted, i) ==
    IF i > 1 /\ NeedsSpace(sorted, i) THEN " " ELSE ""

\* lines 192-208 and 304: selectedText.join('')
RECURSIVE JoinFrom(_, _)
JoinFrom(sorted, i) ==
    IF i > Len(sorted) THEN ""
    ELSE Separator(sorted, i) \o sorted[i].str \o JoinFrom(sorted, i + 1)

SelectedText(sorted) == JoinFrom(sorted, 1)

\* a bbox of the clipped runs alone, without lines 226-228
SelectionBboxOfRuns(sorted, g) ==
    LET sel == SelectionRect(g)
        selectionLeft == sel.x
        selectionRight == sel.x + sel.width
        selectionTop == sel.y
        selectionBottom == sel.y + sel.height
        allX == UNION {{Max(it.x, selectionLeft), Min(it.x + it.width, selectionRight)}
                         : it \in Range(sorted)}
        allY == UNION {{Max(it.y, selectionTop), Min(it.y + it.height, selectionBottom)}
                         : it \in Range(sorted)}
        minX == SetMin(allX)
        maxX == SetMax(allX)
        minY == SetMin(allY)
        maxY == SetMax(allY)
    IN [x |-> minX, y |-> minY, w |-> maxX - minX, h |-> maxY - minY]

\* lines 212-240
SelectionBbox(sorted, g) ==
    LET sel == SelectionRect(g)
        selectionLeft == sel.x
        selectionRight == sel.x + sel.width
        selectionTop == sel.y
        selectionBottom == sel.y + sel.height
        allX == UNION {{Max(it.x, selectionLeft), Min(it.x + it.width, selectionRight)}
                         : it \in Range(sorted)}
                \cup {selectionLeft, selectionRight}
        allY == UNION {{Max(it.y, selectionTop), Min(it.y + it.height, selectionBottom)}
                         : it \in Range(sorted)}
                \cup {selectionTop, selectionBottom}
        minX == SetMin(allX)
        maxX == SetMax(allX)
        minY == SetMin(allY)
        maxY == SetMax(allY)
    IN [x |-> minX, y |-> minY, w |-> maxX - minX, h |-> maxY - minY]

\* lines 34-45
normalizeBbox(bbox, pageWidth, pageHeight) ==
    [x |-> Div(bbox.x, pageWidth), y |-> Div(bbox.y, pageHeight),
     w |-> Div(bbox.w, pageWidth), h |-> Div(bbox.h, pageHeight)]

\* line 250-252: lines.findIndex(line => Math.abs(line[0].y - item.y) < 5)
LineIndex(lines, item) ==
    LET hits == {k \in 1..Len(lines) : Abs(lines[k][1].y - item.y) < 5}
    IN IF hits = {} THEN 0 ELSE SetMin(hits)

\* lines 248-258
RECURSIVE GroupFrom(_, _, _)
GroupFrom(sorted, i, lines) ==
    IF i > Len(sorted) THEN lines
    ELSE LET k == LineIndex(lines, sorted[i])
         IN GroupFrom(sorted, i + 1,
                      IF k > 0
                      THEN [lines EXCEPT ![k] = Append(@, sorted[i])]
                      ELSE Append(lines, <<sorted[i]>>))

GroupLines(sorted) == GroupFrom(sorted, 1, << >>)

\* line 261: lines.sort((a, b) => a[0].y - b[0].y), a stable sort on one key
SortLines(lines) ==
    LET n == Len(lines)
        p == CHOOSE q \in Perms(n) : \A i, j \in 1..n : i < j =>
                 \/ lines[q[i]][1].y < lines[q[j]][1].y
                 \/ lines[q[i]][1].y = lines[q[j]][1].y /\ q[i] < q[j]
    IN [i \in 1..n |-> lines[p[i]]]

\* lines 264-277
LineQuad(line, g) ==
    LET sel == SelectionRect(g)
        lineX == Max(SetMin({it.x : it \in Range(line)}), sel.x)
        lineY == Max(SetMin({it.y : it \in Range(line)}), sel.y)
        lineRight == Min(SetMax({it.x + it.width : it \in Range(line)}), sel.x + sel.width)
        lineBottom == Min(SetMax({it.y + it.height : it \in Range(line)}), sel.y + sel.height)
    IN <<lineX, lineY, lineRight, lineY, lineRight, lineBottom, lineX, lineBottom>>

\* lines 278-292
SingleQuad(item, g) ==
    LET sel == SelectionRect(g)
        itemLeft == Max(item.x, sel.x)
        itemRight == Min(item.x + item.width, sel.x + sel.width)
        itemTop == Max(item.y, sel.y)
        itemBottom == Min(item.y + item.height, sel.y + sel.height)
    IN <<itemLeft, itemTop, itemRight, itemTop, itemRight, itemBottom, itemLeft, itemBottom>>

\* lines 245-292
QuadPoints(sorted, g) ==
    IF Len(sorted) > 1
    THEN LET lines == SortLines(GroupLines(sorted))
         IN [k \in 1..Len(lines) |-> LineQuad(lines[k], g)]
    ELSE IF Len(sorted) = 1 THEN <<SingleQuad(sorted[1], g)>>
    ELSE << >>

\* lines 294-301
NormalizeQuad(quad, pageWidth, pageHeight) ==
    [j \in 1..8 |-> IF j % 2 = 1 THEN Div(quad[j], pageWidth) ELSE Div(quad[j], pageHeight)]

\* the return value built without the early return of lines 176-178
SelectionResultNoEmptyCheck(sorted, viewport, g, pageNumber) ==
    LET bbox == SelectionBbox(sorted, g)
        quadPoints == QuadPoints(sorted, g)
    IN [kind |-> "selection",
        text |-> SelectedText(sorted),
        bbox |-> bbox,
        normalizedBbox |-> normalizeBbox(bbox, viewport.width, viewport.height),
        pageNumber |-> pageNumber,
        quadPoints |-> quadPoints,
        normalizedQuads |-> [k \in 1..Len(quadPoints) |->
                               NormalizeQuad(quadPoints[k], viewport.width, viewport.height)]]

\* lines 176-178 and 303-310: the value returned for the sorted textItems
SelectionResult(sorted, viewport, g, pageNumber) ==
    IF Len(sorted) = 0 THEN Null
    ELSE LET bbox == SelectionBbox(sorted, g)
             quadPoints == QuadPoints(sorted, g)
         IN [kind |-> "selection",
             text |-> SelectedText(sorted),
             bbox |-> bbox,
             normalizedBbox |-> normalizeBbox(bbox, viewport.width, viewport.height),
             pageNumber |-> pageNumber,
             quadPoints |-> quadPoints,
             normalizedQuads |-> [k \in 1..Len(quadPoints) |->
                                    NormalizeQuad(quadPoints[k], viewport.width, viewport.height)]]

\* lines 68-315: every outcome of one call, as the pair of the sorted
\* textItems and the value the promise resolves to (null from the catch
\* block when getTextContent rejects)
getTextFromSelection(items, viewport, g, throws, pageNumber) ==
    IF throws THEN {[textItems |-> << >>, result |-> Null]}
    ELSE {[textItems |-> sorted,
           result |-> SelectionResult(sorted, viewport, g, pageNumber)] :
             sorted \in SortOutcomes(CollectTextItems(items, viewport, g))}

----------------------------------------------------------------------------
(* pdfStore                                                                *)

\* Bounds of the store's check
NumPages == 2
MaxUserAnnotations == 1

\* undefined for a string-valued field, and for an object-valued one
Undefined == "undefined"
Absent == [absent |-> TRUE]

\* normalized geometry used by the annotations of the store's check
SomeBbox == [x |-> Div(1, 10), y |-> Div(1, 10), w |-> Div(2, 10), h |-> Div(1, 10)]
SomeQuad == <<Div(1, 10), Div(1, 10), Div(3, 10), Div(1, 10),
              Div(3, 10), Div(2, 10), Div(1, 10), Div(2, 10)>>

\* An annotation as the extractor emits it (no is_user_created field: falsy).
\* normalized_quads is << >> when the field is undefined: every reader tests
\* "normalized_quads && normalized_quads.length > 0".
Extracted(id, page, bbox, quads) ==
    [annotation_id |-> id, page |-> page, span_text |-> "span",
     entity_type |-> "highlight", feedback_type |-> "unreviewed", notes |-> Undefined,
     is_user_created |-> FALSE, normalized_bbox |-> bbox, normalized_quads |-> quads]

\* The argument lists PdfLoader passes to setAnnotations
ExtractionResults ==
    { << >>,
      <<Extracted("a1", 1, SomeBbox, << >>)>>,
      <<Extracted("a1", 1, SomeBbox, << >>), Extracted("a2", 2, SomeBbox, <<SomeQuad>>)>> }

\* scales App.tsx sets: 1.0 (reset) and 3.0 (the zoom-in cap)
ViewerScales == {1, 3}

\* initial state, lines 39-45
InitialViewerState ==
    [current_page |-> 1, current_annotation_id |-> Undefined, scale |-> 1,
     is_sidebar_open |-> TRUE, is_overlay_visible |-> TRUE]

EmptyByPage == [p \in {} |-> << >>]

NoOp == [op |-> "none", id |-> Undefined, target |-> Absent]

\* lines 33-48
StoreIdle ==
    /\ stNumPages = 0
    /\ stLoading = FALSE
    /\ stError = ""
    /\ stViewer = InitialViewerState
    /\ stAnnotations = << >>
    /\ stByPage = EmptyByPage
    /\ stIdsMade = 0
    /\ stLastOp = NoOp

\* Array.prototype.find on annotation_id: the first match, or Absent
FindById(annots, id) ==
    LET hits == {i \in 1..Len(annots) : annots[i].annotation_id = id}
    IN IF hits = {} THEN Absent ELSE annots[SetMin(hits)]

\* lines 69-76: annotations.reduce grouping by page
GroupByPage(annots) ==
    [p \in {annots[i].page : i \in 1..Len(annots)} |->
        SelectSeq(annots, LAMBDA a : a.page = p)]

\* lines 109-113 and 187-191: every key present is rebuilt from the flat list
RebuildByPage(byPage, annots) ==
    [p \in DOMAIN byPage |-> SelectSeq(annots, LAMBDA a : a.page = p)]

\* lines 51-57
setPdfDocument(numPages) ==
    /\ stNumPages' = numPages
    /\ stError' = ""
    /\ stLastOp' = [op |-> "setPdfDocument", id |-> Undefined, target |-> Absent]
    /\ UNCHANGED <<stLoading, stViewer, stAnnotations, stByPage, stIdsMade>>

\* lines 67-79
setAnnotations(annots) ==
    /\ stAnnotations' = annots
    /\ stByPage' = GroupByPage(annots)
    /\ stLastOp' = [op |-> "setAnnotations", id |-> Undefined, target |-> Absent]
    /\ UNCHANGED <<stNumPages, stLoading, stError, stViewer, stIdsMade>>

\* lines 81-85, for updates = {current_page: p}
updateViewerStatePage(p) ==
    /\ stViewer' = [stViewer EXCEPT !.current_page = p]
    /\ stLastOp' = [op |-> "updateViewerState", id |-> Undefined, target |-> Absent]
    /\ UNCHANGED <<stNumPages, stLoading, stError, stAnnotations, stByPage, stIdsMade>>

\* lines 81-85, for updates = {scale: s}
updateViewerStateScale(s) ==
    /\ stViewer' = [stViewer EXCEPT !.scale = s]
    /\ stLastOp' = [op |-> "updateViewerState", id |-> Undefined, target |-> Absent]
    /\ UNCHANGED <<stNumPages, stLoading, stError, stAnnotations, stByPage, stIdsMade>>

\* lines 81-85, for updates = {current_annotation_id: undefined}
updateViewerStateDeselect ==
    /\ stViewer' = [stViewer EXCEPT !.current_annotation_id = Undefined]
    /\ stLastOp' = [op |-> "updateViewerState", id |-> Undefined, target |-> Absent]
    /\ UNCHANGED <<stNumPages, stLoading, stError, stAnnotations, stByPage, stIdsMade>>

\* lines 87-98: the viewer state after selectAnnotation(annotationId)
SelectedViewerState(viewer, annots, annotationId) ==
    LET annotation == FindById(annots, annotationId)
    IN IF annotation # Absent
       THEN [viewer EXCEPT !.current_annotation_id = annotationId,
                           !.current_page = annotation.page]
       ELSE viewer

\* lines 87-98
selectAnnotation(annotationId) ==
    /\ stViewer' = SelectedViewerState(stViewer, stAnnotations, annotationId)
    /\ stLastOp' = [op |-> "selectAnnotation", id |-> annotationId,
                    target |-> FindById(stAnnotations, annotationId)]
    /\ UNCHANGED <<stNumPages, stLoading, stError, stAnnotations, stByPage, stIdsMade>>

\* a feedback update that also overwrites the text
WithFeedbackAndText(annots, annotationId, feedbackType, notes) ==
    [i \in 1..Len(annots) |->
        IF annots[i].annotation_id = annotationId
        THEN [annots[i] EXCEPT !.feedback_type = feedbackType, !.notes = notes,
                               !.span_text = notes]
        ELSE annots[i]]

\* lines 102-106: { ...annotation, ...feedback } for the feedback
\* {feedback_type, notes} FeedbackPanel passes (lines 169-172)
WithFeedback(annots, annotationId, feedbackType, notes) ==
    [i \in 1..Len(annots) |->
        IF annots[i].annotation_id = annotationId
        THEN [annots[i] EXCEPT !.feedback_type = feedbackType, !.notes = notes]
        ELSE annots[i]]

\* lines 100-120
updateAnnotationFeedback(annotationId, feedbackType, notes) ==
    LET updatedAnnotations == WithFeedback(stAnnotations, annotationId, feedbackType, notes)
    IN /\ stAnnotations' = updatedAnnotations
       /\ stByPage' = RebuildByPage(stByPage, updatedAnnotations)
       /\ stLastOp' = [op |-> "updateAnnotationFeedback", id |-> annotationId,
                    target |-> FindById(stAnnotations, annotationId)]
       /\ UNCHANGED <<stNumPages, stLoading, stError, stViewer, stIdsMade>>

\* line 123: the generated id (timestamp and random suffix: fresh each call)
UserId(n) == IF n = 1 THEN "u1" ELSE IF n = 2 THEN "u2" ELSE "u3"

\* lines 125-130
NewUserAnnotation(data, annotationId) ==
    [annotation_id |-> annotationId, page |-> data.page, span_text |-> data.span_text,
     entity_type |-> data.entity_type, feedback_type |-> "false_negative",
     notes |-> data.notes, is_user_created |-> TRUE, bbox |-> data.bbox,
     normalized_bbox |-> data.normalized_bbox, normalized_quads |-> data.normalized_quads]

\* the new annotation put at the head of its page's list instead of pushed
ByPageWithUnshifted(byPage, a) ==
    [p \in DOMAIN byPage \cup {a.page} |->
        IF p = a.page
        THEN (IF p \in DOMAIN byPage THEN <<a>> \o byPage[p] ELSE <<a>>)
        ELSE byPage[p]]

\* lines 136-140
ByPageWithPushed(byPage, a) ==
    [p \in DOMAIN byPage \cup {a.page} |->
        IF p = a.page
        THEN (IF p \in DOMAIN byPage THEN Append(byPage[p], a) ELSE <<a>>)
        ELSE byPage[p]]

\* lines 122-147
addUserAnnotation(data) ==
    LET newAnnotation == NewUserAnnotation(data, UserId(stIdsMade + 1))
    IN /\ stIdsMade < MaxUserAnnotations
       /\ stIdsMade' = stIdsMade + 1
       /\ stAnnotations' = Append(stAnnotations, newAnnotation)
       /\ stByPage' = ByPageWithPushed(stByPage, newAnnotation)
       /\ stLastOp' = [op |-> "addUserAnnotation", id |-> newAnnotation.annotation_id,
                       target |-> Absent]
       /\ UNCHANGED <<stNumPages, stLoading, stError, stViewer>>

\* deletion that skips the is_user_created test of line 152
DeletedAnnotationsAnyOwner(annots, annotationId) ==
    SelectSeq(annots, LAMBDA a : a.annotation_id # annotationId)

\* lines 151-156: the flat list after deleteUserAnnotation(annotationId)
DeletedAnnotations(annots, annotationId) ==
    LET annotation == FindById(annots, annotationId)
    IN IF annotation = Absent \/ ~annotation.is_user_created
       THEN annots
       ELSE SelectSeq(annots, LAMBDA a : a.annotation_id # annotationId)

\* lines 151-164: annotationsByPage after deleteUserAnnotation(annotationId)
DeletedByPage(byPage, annots, annotationId) ==
    LET annotation == FindById(annots, annotationId)
    IN IF annotation = Absent \/ ~annotation.is_user_created
       THEN byPage
       ELSE [p \in DOMAIN byPage |->
               IF p = annotation.page
               THEN SelectSeq(byPage[p], LAMBDA a : a.annotation_id # annotationId)
               ELSE byPage[p]]

\* lines 149-171
deleteUserAnnotation(annotationId) ==
    /\ stAnnotations' = DeletedAnnotations(stAnnotations, annotationId)
    /\ stByPage' = DeletedByPage(stByPage, stAnnotations, annotationId)
    /\ stLastOp' = [op |-> "deleteUserAnnotation", id |-> annotationId,
                    target |-> FindById(stAnnotations, annotationId)]
    /\ UNCHANGED <<stNumPages, stLoading, stError, stViewer, stIdsMade>>

\* lines 180-184: { ...a, ...updates } for updates = {span_text}
WithSpanText(annots, annotationId, text) ==
    [i \in 1..Len(annots) |->
        IF annots[i].annotation_id = annotationId
        THEN [annots[i] EXCEPT !.span_text = text]
        ELSE annots[i]]

\* lines 173-198
updateUserAnnotation(annotationId, text) ==
    LET annotation == FindById(stAnnotations, annotationId)
        updatedAnnotations == WithSpanText(stAnnotations, annotationId, text)
    IN /\ IF annotation = Absent \/ ~annotation.is_user_created
          THEN UNCHANGED <<stAnnotations, stByPage>>
          ELSE /\ stAnnotations' = updatedAnnotations
               /\ stByPage' = RebuildByPage(stByPage, updatedAnnotations)
       /\ stLastOp' = [op |-> "updateUserAnnotation", id |-> annotationId,
                    target |-> FindById(stAnnotations, annotationId)]
       /\ UNCHANGED <<stNumPages, stLoading, stError, stViewer, stIdsMade>>

\* lines 200-216
clearPdf ==
    /\ stNumPages' = 0
    /\ stAnnotations' = << >>
    /\ stByPage' = EmptyByPage
    /\ stError' = ""
    /\ stLoading' = FALSE
    /\ stViewer' = InitialViewerState
    /\ stLastOp' = [op |-> "clearPdf", id |-> Undefined, target |-> Absent]
    /\ UNCHANGED stIdsMade

\* The calls the components make on the store
Pages == 1..NumPages
AnnotationIds == {"a1", "a2"} \cup {UserId(n) : n \in 1..MaxUserAnnotations}

\* the annotationData CreateAnnotationDialog.handleSubmit passes in
NewAnnotationData ==
    {[page |-> p, span_text |-> "picked", entity_type |-> "PERSON", notes |-> Undefined,
      bbox |-> [x |-> 4, y |-> 4, w |-> 8, h |-> 4],
      normalized_bbox |-> SomeBbox, normalized_quads |-> <<SomeQuad>>] : p \in Pages}

StoreNext ==
    \/ UNCHANGED <<selVars, exVars, renderVars, gestureVars, overlayVars, coordVars, loadVars, dialogVars>> /\ setPdfDocument(NumPages)
    \/ UNCHANGED <<selVars, exVars, renderVars, gestureVars, overlayVars, coordVars, loadVars, dialogVars>> /\ \E r \in ExtractionResults : setAnnotations(r)
    \/ UNCHANGED <<selVars, exVars, renderVars, gestureVars, overlayVars, coordVars, loadVars, dialogVars>> /\ \E p \in Pages : updateViewerStatePage(p)
    \/ UNCHANGED <<selVars, exVars, renderVars, gestureVars, overlayVars, coordVars, loadVars, dialogVars>> /\ \E sc \in ViewerScales : updateViewerStateScale(sc)
    \/ UNCHANGED <<selVars, exVars, renderVars, gestureVars, overlayVars, coordVars, loadVars, dialogVars>> /\ updateViewerStateDeselect
    \/ UNCHANGED <<selVars, exVars, renderVars, gestureVars, overlayVars, coordVars, loadVars, dialogVars>> /\ \E id \in AnnotationIds : selectAnnotation(id)
    \/ UNCHANGED <<selVars, exVars, renderVars, gestureVars, overlayVars, coordVars, loadVars, dialogVars>> /\ \E id \in AnnotationIds : updateAnnotationFeedback(id, "true_positive", "note")
    \/ UNCHANGED <<selVars, exVars, renderVars, gestureVars, overlayVars, coordVars, loadVars, dialogVars>> /\ \E d \in NewAnnotationData : addUserAnnotation(d)
    \/ UNCHANGED <<selVars, exVars, renderVars, gestureVars, overlayVars, coordVars, loadVars, dialogVars>> /\ \E id \in AnnotationIds : deleteUserAnnotation(id)
    \/ UNCHANGED <<selVars, exVars, renderVars, gestureVars, overlayVars, coordVars, loadVars, dialogVars>> /\ \E id \in AnnotationIds : updateUserAnnotation(id, "edited")
    \/ UNCHANGED <<selVars, exVars, renderVars, gestureVars, overlayVars, coordVars, loadVars, dialogVars>> /\ clearPdf

\* the overlay is not mounted (part_000 line 268: no pageViewport yet)
OverlayIdle ==
    /\ ovViewport = Null
    /\ canvasDisplaySize = Null
    /\ canvasRect = Null
    /\ ovRects = << >>
    /\ ovClicked = Null

\* part_000 lines 13-26 and the first render without a document: no effect
\* calls renderPage
RenderIdle ==
    /\ vwFn = 1
    /\ vwFnDeps = [doc |-> FALSE, scale |-> 1]
    /\ vwCommitted = [doc |-> FALSE, page |-> 1, scale |-> 1]
    /\ vwDirty = FALSE
    /\ vwTaskOf = <<0>>
    /\ vwCalls = << >>
    /\ vwTasks = << >>
    /\ isRendering = FALSE
    /\ pageViewport = Null
    /\ currentPage = 0
    /\ currentViewport = Null

\* part_000 lines 19-26
GestureIdle ==
    /\ isSelecting = FALSE
    /\ selectionStart = Null
    /\ selectionEnd = Null
    /\ vwResolutions = << >>
    /\ vwGesture = 0
    /\ showCreateDialog = FALSE
    /\ selectedTextData = Null

ViewerIdle == RenderIdle /\ GestureIdle /\ OverlayIdle

ExIdle ==
    /\ exNumPages = 0
    /\ exPageNumber = 1
    /\ exPageSize = [width |-> 1, height |-> 1]
    /\ exPc = "done"
    /\ exAnnotations = << >>
    /\ exSources = << >>
    /\ exErrors = << >>

\* PdfLoader.tsx: no file has been picked or dropped
LoadIdle == ldCalls = << >>

\* part_000 line 286: the dialog is not mounted
DialogIdle == dlgPage = 1

\* no call of the coordinate functions is being followed
CoordIdle ==
    /\ coBbox = [x |-> 0, y |-> 0, w |-> 0, h |-> 0]
    /\ coPageWidth = 1
    /\ coPageHeight = 1
    /\ coCalled = "none"
    /\ coThrown = "none"
    /\ coNormalized = Null
    /\ coDenormalized = Null

SelIdle ==
    /\ selItems = << >>
    /\ selViewport = [width |-> PageW, height |-> PageH, scale |-> 1]
    /\ selGesture = [startX |-> 0, startY |-> 0, endX |-> 0, endY |-> 0]
    /\ selThrows = FALSE
    /\ selTextItems = << >>
    /\ selResult = NotCalled

StoreInit == StoreIdle /\ SelIdle /\ ExIdle /\ ViewerIdle /\ CoordIdle /\ LoadIdle /\ DialogIdle

SpecStore == StoreInit /\ [][StoreNext]_vars

----------------------------------------------------------------------------
(* pdf-annotation-extractor.ts                                             *)

\* Bounds and input sets of the extractor's check
MaxExtracted == 2
\* Bound: records that throw in one call
MaxErrors == 1
ExMaxPages == 2
PageSizes == {[width |-> 600, height |-> 800], [width |-> 400, height |-> 500]}

\* pdfAnnot.rect values (<< >> when the record has none)
\* the last one reaches beyond the right and top edges of both page sizes
RectPool == { <<100, 200, 180, 215>>, <<180, 215, 100, 200>>, << >>,
              <<550, 790, 650, 810>> }

\* pdfAnnot.quadPoints values, flat (<< >> when the record has none): one quad,
\* two quads, and one quad followed by an incomplete group
QuadA == <<100, 215, 180, 215, 100, 200, 180, 200>>
QuadB == <<100, 230, 150, 230, 100, 215, 150, 215>>
QuadPointsPool == { << >>, QuadA, QuadA \o QuadB, QuadA \o <<100, 230, 150>> }

\* pdfAnnot.subtype values (Undefined when the record has none)
SubtypePool == {"Highlight", "Text", "Popup", "Link", Undefined}

\* the properties of a record that lines 149-159 read (Undefined, or Absent
\* for an object, when the record has none)
Fields(titleObj, content, contentsObj, title, author, creator, T, Subject, Title, name) ==
    [titleObj |-> titleObj, content |-> content, contentsObj |-> contentsObj,
     title |-> title, author |-> author, creator |-> creator, T |-> T,
     Subject |-> Subject, Title |-> Title, name |-> name]

NoFields ==
    Fields(Absent, Undefined, Absent, Undefined, Undefined, Undefined, Undefined,
           Undefined, Undefined, Undefined)

FieldsPool ==
    { Fields([str |-> "fitz"], "c", Absent, Undefined, Undefined, Undefined, Undefined,
             Undefined, Undefined, Undefined),
      Fields([str |-> ""], "", [str |-> "note"], Undefined, "ann", Undefined, Undefined,
             Undefined, Undefined, Undefined),
      Fields(Absent, Undefined, Absent, "ttl", "ann", Undefined, Undefined,
             Undefined, Undefined, Undefined),
      Fields(Absent, Undefined, Absent, Undefined, "ann", "app", Undefined,
             "subj", Undefined, "nm"),
      Fields(Absent, Undefined, Absent, Undefined, Undefined, "app", "tee",
             Undefined, Undefined, "nm"),
      Fields(Absent, Undefined, Absent, Undefined, Undefined, Undefined, "tee",
             "subj", Undefined, Undefined),
      Fields(Absent, Undefined, Absent, Undefined, Undefined, Undefined, Undefined,
             "subj", "Ttl", "nm"),
      Fields(Absent, Undefined, Absent, Undefined, Undefined, Undefined, Undefined,
             Undefined, "Ttl", "nm"),
      Fields(Absent, Undefined, Absent, Undefined, Undefined, Undefined, Undefined,
             Undefined, Undefined, "nm") }

\* records of every geometry without those properties, and records with them
\* that have no rect and no quadPoints
NativeRecords ==
    [subtype : SubtypePool, rect : RectPool, quadPoints : QuadPointsPool, fields : {NoFields}]
    \cup [subtype : {"Text", Undefined}, rect : {<< >>}, quadPoints : {<< >>},
          fields : FieldsPool]

\* a || b of two strings: a string is falsy when undefined or empty
Truthy(v) == v # Undefined /\ v # ""

\* obj && obj.str
StrOf(obj) == IF obj = Absent THEN Undefined ELSE obj.str

\* String.prototype.toLowerCase on the type tags
toLowerCase(str) ==
    CASE str = "Highlight" -> "highlight"
      [] str = "Text" -> "text"
      [] str = "Unknown" -> "unknown"
      [] OTHER -> str

\* the first truthy value of a list of candidates, Undefined if none
RECURSIVE FirstTruthy(_)
FirstTruthy(candidates) ==
    IF candidates = << >> THEN Undefined
    ELSE IF Truthy(Head(candidates)) THEN Head(candidates)
    ELSE FirstTruthy(Tail(candidates))

\* a resolution that consults only titleObj.str, content, contentsObj.str,
\* author, creator, Subject and name
PossibleTitleOfSeven(fields, annotType) ==
    LET possibleTitle ==
            FirstTruthy(<<StrOf(fields.titleObj), fields.content, StrOf(fields.contentsObj),
                          fields.author, fields.creator, fields.Subject, fields.name>>)
    IN IF ~Truthy(possibleTitle) THEN toLowerCase(annotType) ELSE possibleTitle

\* lines 149-180
PossibleTitle(fields, annotType) ==
    LET possibleTitle ==
            FirstTruthy(<<StrOf(fields.titleObj), fields.content, StrOf(fields.contentsObj),
                          fields.title, fields.author, fields.creator, fields.T,
                          fields.Subject, fields.Title, fields.name>>)
    IN IF ~Truthy(possibleTitle) THEN toLowerCase(annotType) ELSE possibleTitle

\* lines 245-265
mapAnnotationTypeToEntityType(pdfType) ==
    CASE pdfType = "Highlight" -> "highlight"
      [] pdfType = "Text" -> "comment"
      [] pdfType = "Unknown" -> "unknown"
      [] OTHER -> pdfType

\* a bbox whose y takes the first corner's y instead of the larger one
RectToBboxFirstCorner(rect, pageSize) ==
    [x |-> Min(rect[1], rect[3]),
     y |-> pageSize.height - rect[2],
     w |-> Abs(rect[3] - rect[1]),
     h |-> Abs(rect[4] - rect[2])]

\* lines 97-103
RectToBbox(rect, pageSize) ==
    [x |-> Min(rect[1], rect[3]),
     y |-> pageSize.height - Max(rect[2], rect[4]),
     w |-> Abs(rect[3] - rect[1]),
     h |-> Abs(rect[4] - rect[2])]

\* src/unnamed/part_006 lines 102-109 (extractSingleAnnotation)
extractSingleAnnotationRect(rect, pageSize) ==
    [x |-> Min(rect[1], rect[3]),
     y |-> pageSize.height - Max(rect[2], rect[4]),
     w |-> Abs(rect[3] - rect[1]),
     h |-> Abs(rect[4] - rect[2])]

\* file-handler.ts lines 262-273
normalizeCoordinates(bbox, pageWidth, pageHeight) ==
    [x |-> Div(bbox.x, pageWidth), y |-> Div(bbox.y, pageHeight),
     w |-> Div(bbox.w, pageWidth), h |-> Div(bbox.h, pageHeight)]

\* lines 122-124: the complete groups of 8 of the flat array
QuadGroups(quadPoints) ==
    [k \in 1..(Len(quadPoints) \div 8) |-> SubSeq(quadPoints, 8 * (k - 1) + 1, 8 * k)]

\* lines 126-131
FlippedQuad(quad, pageSize) ==
    [j \in 1..8 |-> IF j % 2 = 1 THEN quad[j] ELSE pageSize.height - quad[j]]

\* lines 135-140
NormalizedQuad(quad, pageSize) ==
    [j \in 1..8 |-> IF j % 2 = 1 THEN Div(quad[j], pageSize.width)
                    ELSE Div(quad[j], pageSize.height)]

\* lines 72-195: the annotation built from one record that is not skipped
ExtractedAnnotation(pdfAnnot, pageNumber, pageSize, id) ==
    LET annotType == IF pdfAnnot.subtype = Undefined THEN "Unknown" ELSE pdfAnnot.subtype
        rect == IF pdfAnnot.rect = << >> THEN <<0, 0, 0, 0>> ELSE pdfAnnot.rect
        bbox == RectToBbox(rect, pageSize)
        groups == QuadGroups(pdfAnnot.quadPoints)
    IN [annotation_id |-> id,
        page |-> pageNumber,
        entity_type |-> mapAnnotationTypeToEntityType(annotType),
        annotation_title |-> PossibleTitle(pdfAnnot.fields, annotType),
        feedback_type |-> "unreviewed",
        bbox |-> bbox,
        normalized_bbox |-> normalizeCoordinates(bbox, pageSize.width, pageSize.height),
        pdf_annotation_type |-> annotType,
        quad_points |-> [k \in 1..Len(groups) |-> FlippedQuad(groups[k], pageSize)],
        normalized_quads |-> [k \in 1..Len(groups) |-> NormalizedQuad(groups[k], pageSize)]]

\* lines 76-85
Skipped(pdfAnnot) == pdfAnnot.subtype \in {"Popup", "Link"}

\* line 183: pdfAnnot.id, unique within the document
RecordId(n) == IF n = 1 THEN "r1" ELSE IF n = 2 THEN "r2" ELSE IF n = 3 THEN "r3" ELSE "r4"

\* lines 15-22
ExInit ==
    /\ StoreIdle
    /\ SelIdle
    /\ ViewerIdle
    /\ CoordIdle /\ LoadIdle /\ DialogIdle
    /\ exNumPages \in 0..ExMaxPages
    /\ exPageNumber = 1
    /\ exPageSize = [width |-> 1, height |-> 1]
    /\ exPc = "loop"
    /\ exAnnotations = << >>
    /\ exSources = << >>
    /\ exErrors = << >>

\* lines 22-40: the next page is fetched and has annotations
ExOpenPage ==
    /\ exPc = "loop"
    /\ exPageNumber <= exNumPages
    /\ \E size \in PageSizes : exPageSize' = size
    /\ exPc' = "records"
    /\ UNCHANGED <<exNumPages, exPageNumber, exAnnotations, exSources, exErrors>>
    /\ UNCHANGED <<selVars, storeVars, renderVars, gestureVars, overlayVars, coordVars, loadVars, dialogVars>>

\* lines 35-38: the next page is fetched and has no annotations
ExEmptyPage ==
    /\ exPc = "loop"
    /\ exPageNumber <= exNumPages
    /\ \E size \in PageSizes : exPageSize' = size
    /\ exPageNumber' = exPageNumber + 1
    /\ UNCHANGED <<exNumPages, exPc, exAnnotations, exSources, exErrors>>
    /\ UNCHANGED <<selVars, storeVars, renderVars, gestureVars, overlayVars, coordVars, loadVars, dialogVars>>

\* lines 206-209: getPage or getAnnotations of the next page rejects
ExPageFails ==
    /\ exPc = "loop"
    /\ exPageNumber <= exNumPages
    /\ exErrors' = Append(exErrors, [of |-> "page", page |-> exPageNumber])
    /\ exPageNumber' = exPageNumber + 1
    /\ UNCHANGED <<exNumPages, exPageSize, exPc, exAnnotations, exSources>>
    /\ UNCHANGED <<selVars, storeVars, renderVars, gestureVars, overlayVars, coordVars, loadVars, dialogVars>>

\* a failure of a record that also ends the record loop of its page
ExRecordFailsEndsPage ==
    /\ exPc = "records"
    /\ Len(exErrors) < MaxErrors
    /\ exErrors' = Append(exErrors, [of |-> "annotation", page |-> exPageNumber])
    /\ exPageNumber' = exPageNumber + 1
    /\ exPc' = "loop"
    /\ UNCHANGED <<exNumPages, exPageSize, exAnnotations, exSources>>
    /\ UNCHANGED <<selVars, storeVars, renderVars, gestureVars, overlayVars, coordVars, loadVars, dialogVars>>

\* lines 43-46 and 200-203: one iteration of the record loop throws before
\* line 197 (a record that is null, a subtype that is not a string)
ExRecordFails ==
    /\ exPc = "records"
    /\ Len(exErrors) < MaxErrors
    /\ exErrors' = Append(exErrors, [of |-> "annotation", page |-> exPageNumber])
    /\ UNCHANGED <<exNumPages, exPageNumber, exPageSize, exPc, exAnnotations, exSources>>
    /\ UNCHANGED <<selVars, storeVars, renderVars, gestureVars, overlayVars, coordVars, loadVars, dialogVars>>

\* lines 43-200: one iteration of the record loop
ExRecord ==
    /\ exPc = "records"
    /\ Len(exAnnotations) < MaxExtracted
    /\ \E pdfAnnot \in NativeRecords :
          IF Skipped(pdfAnnot)
          THEN UNCHANGED <<exAnnotations, exSources>>
          ELSE /\ exAnnotations' =
                     Append(exAnnotations,
                            ExtractedAnnotation(pdfAnnot, exPageNumber, exPageSize,
                                                RecordId(Len(exAnnotations) + 1)))
               /\ exSources' = Append(exSources, [record |-> pdfAnnot, pageSize |-> exPageSize])
    /\ UNCHANGED <<exNumPages, exPageNumber, exPageSize, exPc, exErrors>>
    /\ UNCHANGED <<selVars, storeVars, renderVars, gestureVars, overlayVars, coordVars, loadVars, dialogVars>>

\* line 205: the record loop of the page ends
ExClosePage ==
    /\ exPc = "records"
    /\ exPageNumber' = exPageNumber + 1
    /\ exPc' = "loop"
    /\ UNCHANGED <<exNumPages, exPageSize, exAnnotations, exSources, exErrors>>
    /\ UNCHANGED <<selVars, storeVars, renderVars, gestureVars, overlayVars, coordVars, loadVars, dialogVars>>

\* lines 212-226
ExReturn ==
    /\ exPc = "loop"
    /\ exPageNumber > exNumPages
    /\ exPc' = "done"
    /\ UNCHANGED <<exNumPages, exPageNumber, exPageSize, exAnnotations, exSources, exErrors>>
    /\ UNCHANGED <<selVars, storeVars, renderVars, gestureVars, overlayVars, coordVars, loadVars, dialogVars>>

\* lines 217-226: the value returned (null while the call is running)
ExResult ==
    IF exPc # "done" THEN Null
    ELSE [success |-> TRUE,
          annotations |-> exAnnotations,
          errors |-> IF Len(exErrors) > 0 THEN exErrors ELSE << >>]

ExNext ==
    \/ ExOpenPage
    \/ ExEmptyPage
    \/ ExPageFails
    \/ ExRecord
    \/ ExRecordFails
    \/ ExClosePage
    \/ ExReturn

SpecExtract == ExInit /\ [][ExNext]_vars

----------------------------------------------------------------------------
(* PdfViewer (part_000): renderPage and its effects                        *)

\* Bound: renderPage invocations in one behaviour
MaxCalls == 3

\* page.getViewport({ scale }) of a page whose size is PageW x PageH points
PageViewport(scale) == [width |-> PageW * scale, height |-> PageH * scale, scale |-> scale]

\* lines 38-43: an invocation that passed the guard, called
\* setIsRendering(true) and awaits pdfDocument.getPage(pageNumber); scale is
\* the viewerState.scale its closure holds
NewCall(fn, pageNumber, scale) ==
    [fn |-> fn, pageNumber |-> pageNumber, scale |-> scale, pc |-> "getPage", task |-> 0,
     err |-> "none", logged |-> FALSE, escaped |-> FALSE]

\* an exception handler that logs whatever it catches
CaughtLoggingAll(call, name) ==
    [call EXCEPT !.pc = "done", !.err = name, !.logged = TRUE, !.escaped = FALSE]

\* lines 76-83: the catch block receives the exception named name; it calls
\* console.error unless the name is RenderingCancelledException, the finally
\* block runs and the async function returns normally
Caught(call, name) ==
    [call EXCEPT !.pc = "done", !.err = name,
                 !.logged = (name # "RenderingCancelledException"),
                 !.escaped = FALSE]

\* lines 67-69 and 128-130: if (renderPage.currentRenderTask) cancel(); a task
\* that has completed is not affected
CancelTask(tasks, t) ==
    IF t # 0 /\ tasks[t] = "running" THEN [tasks EXCEPT ![t] = "cancelled"] ELSE tasks

\* A store change schedules a re-render of the component (usePdfStore()).
\* PdfLoader: setPdfDocument(document, meta)
LoadDocument ==
    /\ stNumPages = 0
    /\ setPdfDocument(NumPages)
    /\ vwDirty' = TRUE
    /\ UNCHANGED <<vwFn, vwFnDeps, vwCommitted, vwTaskOf, vwCalls, vwTasks,
                   isRendering, pageViewport, currentPage, currentViewport>>
    /\ UNCHANGED <<selVars, exVars, gestureVars, overlayVars, coordVars, loadVars, dialogVars>>

\* App.tsx lines 40-50: previous / next page
ChangePage ==
    /\ stNumPages > 0
    /\ \E p \in 1..stNumPages :
          /\ p # stViewer.current_page
          /\ updateViewerStatePage(p)
    /\ vwDirty' = TRUE
    /\ UNCHANGED <<vwFn, vwFnDeps, vwCommitted, vwTaskOf, vwCalls, vwTasks,
                   isRendering, pageViewport, currentPage, currentViewport>>
    /\ UNCHANGED <<selVars, exVars, gestureVars, overlayVars, coordVars, loadVars, dialogVars>>

\* App.tsx lines 20-30: zoom
ChangeScale ==
    /\ stNumPages > 0
    /\ \E sc \in ViewerScales :
          /\ sc # stViewer.scale
          /\ updateViewerStateScale(sc)
    /\ vwDirty' = TRUE
    /\ UNCHANGED <<vwFn, vwFnDeps, vwCommitted, vwTaskOf, vwCalls, vwTasks,
                   isRendering, pageViewport, currentPage, currentViewport>>
    /\ UNCHANGED <<selVars, exVars, gestureVars, overlayVars, coordVars, loadVars, dialogVars>>

\* One render of the component and its commit.  Lines 38-84: useCallback
\* returns a new function when pdfDocument or viewerState.scale changed.
\* Line 87: the current function's currentRenderTask is set to null.  Lines
\* 126-132: the cleanup of the previous function runs when the function
\* changed.  Lines 90-94 and 119-123: the page effect, then the scale effect,
\* call renderPage when one of their deps changed.
ViewerRender ==
    /\ vwDirty
    /\ LET doc == stNumPages > 0
           page == stViewer.current_page
           scale == stViewer.scale
           fnChanged == vwFnDeps # [doc |-> doc, scale |-> scale]
           fn == IF fnChanged THEN vwFn + 1 ELSE vwFn
           pageEffect == fnChanged \/ vwCommitted.doc # doc \/ vwCommitted.page # page
           scaleEffect == fnChanged \/ vwCommitted.scale # scale
           calls == (IF pageEffect /\ doc THEN <<NewCall(fn, page, scale)>> ELSE << >>)
                    \o (IF scaleEffect /\ doc THEN <<NewCall(fn, page, scale)>> ELSE << >>)
       IN /\ Len(vwCalls) + Len(calls) <= MaxCalls
          /\ vwFn' = fn
          /\ vwFnDeps' = [doc |-> doc, scale |-> scale]
          /\ vwTaskOf' = IF fnChanged THEN Append(vwTaskOf, 0)
                         ELSE [vwTaskOf EXCEPT ![vwFn] = 0]
          /\ vwTasks' = IF fnChanged THEN CancelTask(vwTasks, vwTaskOf[vwFn]) ELSE vwTasks
          /\ vwCommitted' = [doc |-> doc, page |-> page, scale |-> scale]
          /\ vwCalls' = vwCalls \o calls
          /\ isRendering' = (isRendering \/ calls # << >>)
          /\ vwDirty' = (calls # << >> /\ ~isRendering)
    /\ UNCHANGED <<pageViewport, currentPage, currentViewport>>
    /\ UNCHANGED <<selVars, storeVars, exVars, gestureVars, overlayVars, coordVars, loadVars, dialogVars>>

\* lines 45-73: getPage resolved; the invocation sets the viewport state,
\* sizes the canvas, cancels the task its own function object remembers,
\* starts its render task and awaits it
GetPageResolved ==
    \E i \in 1..Len(vwCalls) :
        LET call == vwCalls[i]
            viewport == PageViewport(call.scale)
            task == Len(vwTasks) + 1
        IN /\ call.pc = "getPage"
           /\ pageViewport' = [width |-> viewport.width, height |-> viewport.height]
           /\ currentPage' = call.pageNumber
           /\ currentViewport' = viewport
           /\ vwTasks' = Append(CancelTask(vwTasks, vwTaskOf[call.fn]), "running")
           /\ vwTaskOf' = [vwTaskOf EXCEPT ![call.fn] = task]
           /\ vwCalls' = [vwCalls EXCEPT ![i] = [call EXCEPT !.pc = "render", !.task = task]]
           /\ vwDirty' = TRUE
           /\ UNCHANGED <<vwFn, vwFnDeps, vwCommitted, isRendering>>
           /\ UNCHANGED <<selVars, storeVars, exVars, gestureVars, overlayVars, coordVars, loadVars, dialogVars>>

\* lines 74-75 and 81-83: the task drew the page, its promise resolved
RenderCompleted ==
    \E i \in 1..Len(vwCalls) :
        LET call == vwCalls[i]
        IN /\ call.pc = "render"
           /\ vwTasks[call.task] = "running"
           /\ vwTasks' = [vwTasks EXCEPT ![call.task] = "completed"]
           /\ vwTaskOf' = [vwTaskOf EXCEPT ![call.fn] = 0]
           /\ vwCalls' = [vwCalls EXCEPT ![i] = [call EXCEPT !.pc = "done"]]
           /\ isRendering' = FALSE
           /\ vwDirty' = (vwDirty \/ isRendering)
           /\ UNCHANGED <<vwFn, vwFnDeps, vwCommitted, pageViewport, currentPage,
                          currentViewport>>
           /\ UNCHANGED <<selVars, storeVars, exVars, gestureVars, overlayVars, coordVars, loadVars, dialogVars>>

\* lines 76-83: the task was cancelled, its promise rejected with
\* RenderingCancelledException
RenderCancelled ==
    \E i \in 1..Len(vwCalls) :
        LET call == vwCalls[i]
        IN /\ call.pc = "render"
           /\ vwTasks[call.task] = "cancelled"
           /\ vwCalls' = [vwCalls EXCEPT ![i] = Caught(call, "RenderingCancelledException")]
           /\ isRendering' = FALSE
           /\ vwDirty' = (vwDirty \/ isRendering)
           /\ UNCHANGED <<vwFn, vwFnDeps, vwCommitted, vwTaskOf, vwTasks, pageViewport,
                          currentPage, currentViewport>>
           /\ UNCHANGED <<selVars, storeVars, exVars, gestureVars, overlayVars, coordVars, loadVars, dialogVars>>

\* lines 43 and 76-83: pdfDocument.getPage rejects
GetPageRejected ==
    \E i \in 1..Len(vwCalls) :
        LET call == vwCalls[i]
        IN /\ call.pc = "getPage"
           /\ vwCalls' = [vwCalls EXCEPT ![i] = Caught(call, "Error")]
           /\ isRendering' = FALSE
           /\ vwDirty' = (vwDirty \/ isRendering)
           /\ UNCHANGED <<vwFn, vwFnDeps, vwCommitted, vwTaskOf, vwTasks, pageViewport,
                          currentPage, currentViewport>>
           /\ UNCHANGED <<selVars, storeVars, exVars, gestureVars, overlayVars, coordVars, loadVars, dialogVars>>

\* lines 74 and 76-83: the task's promise rejects with an exception other
\* than the cancellation; line 75 is skipped
RenderFailed ==
    \E i \in 1..Len(vwCalls) :
        LET call == vwCalls[i]
        IN /\ call.pc = "render"
           /\ vwTasks[call.task] = "running"
           /\ vwTasks' = [vwTasks EXCEPT ![call.task] = "failed"]
           /\ vwCalls' = [vwCalls EXCEPT ![i] = Caught(call, "Error")]
           /\ isRendering' = FALSE
           /\ vwDirty' = (vwDirty \/ isRendering)
           /\ UNCHANGED <<vwFn, vwFnDeps, vwCommitted, vwTaskOf, pageViewport,
                          currentPage, currentViewport>>
           /\ UNCHANGED <<selVars, storeVars, exVars, gestureVars, overlayVars, coordVars, loadVars, dialogVars>>

RenderNext ==
    \/ LoadDocument
    \/ ChangePage
    \/ ChangeScale
    \/ ViewerRender
    \/ GetPageResolved
    \/ RenderCompleted
    \/ RenderCancelled
    \/ GetPageRejected
    \/ RenderFailed

RenderInit == StoreIdle /\ SelIdle /\ ExIdle /\ ViewerIdle /\ CoordIdle /\ LoadIdle /\ DialogIdle

SpecRender == RenderInit /\ [][RenderNext]_vars

----------------------------------------------------------------------------
(* PdfViewer (part_000): the selection gesture                             *)

\* Bounds: gestures begun and resolutions started in one behaviour
MaxGestures == 2
MaxResolutions == 2

\* line 164
minSize == 10

\* canvas coordinates getCanvasCoordinates returns for the pointer events
Points == {[x |-> 0, y |-> 0], [x |-> 5, y |-> 5], [x |-> 40, y |-> 40]}

\* pdfPage.getTextContent().items of every page of the document
PageTextContent == <<TextItem(0, 40, 10, 10, 0, "Hello"), TextItem(20, 40, 10, 10, 0, "World")>>

\* The viewer once the document is loaded and both effects' renderPage calls
\* for page 1 at scale 1 have finished (the first cancelled by the second).
FirstPageShown ==
    /\ stNumPages = NumPages
    /\ stLoading = FALSE
    /\ stError = ""
    /\ stViewer = InitialViewerState
    /\ stAnnotations = << >>
    /\ stByPage = EmptyByPage
    /\ stIdsMade = 0
    /\ stLastOp = [op |-> "setPdfDocument", id |-> Undefined, target |-> Absent]
    /\ vwFn = 2
    /\ vwFnDeps = [doc |-> TRUE, scale |-> 1]
    /\ vwCommitted = [doc |-> TRUE, page |-> 1, scale |-> 1]
    /\ vwDirty = FALSE
    /\ vwTaskOf = <<0, 0>>
    /\ vwCalls = <<[fn |-> 2, pageNumber |-> 1, scale |-> 1, pc |-> "done", task |-> 1,
                    err |-> "RenderingCancelledException", logged |-> FALSE,
                    escaped |-> FALSE],
                   [fn |-> 2, pageNumber |-> 1, scale |-> 1, pc |-> "done", task |-> 2,
                    err |-> "none", logged |-> FALSE, escaped |-> FALSE]>>
    /\ vwTasks = <<"cancelled", "completed">>
    /\ isRendering = FALSE
    /\ pageViewport = [width |-> PageW, height |-> PageH]
    /\ currentPage = 1
    /\ currentViewport = PageViewport(1)

\* lines 156-160, 166-170, 195-197
ResetSelection ==
    /\ isSelecting' = FALSE
    /\ selectionStart' = Null
    /\ selectionEnd' = Null

\* lines 135-144
handleMouseDown ==
    /\ stNumPages > 0
    /\ stViewer.is_overlay_visible
    /\ vwGesture < MaxGestures
    /\ \E coords \in Points :
          /\ isSelecting' = TRUE
          /\ selectionStart' = coords
          /\ selectionEnd' = coords
    /\ vwGesture' = vwGesture + 1
    /\ UNCHANGED <<vwResolutions, showCreateDialog, selectedTextData>>
    /\ UNCHANGED <<selVars, storeVars, exVars, renderVars, overlayVars, coordVars, loadVars, dialogVars>>

\* lines 146-153
handleMouseMove ==
    /\ stNumPages > 0
    /\ isSelecting
    /\ selectionStart # Null
    /\ \E coords \in Points : selectionEnd' = coords
    /\ UNCHANGED <<isSelecting, selectionStart, vwResolutions, vwGesture,
                   showCreateDialog, selectedTextData>>
    /\ UNCHANGED <<selVars, storeVars, exVars, renderVars, overlayVars, coordVars, loadVars, dialogVars>>

\* a pointer-up without the size check of lines 163-171
handleMouseUpAnySize ==
    /\ stNumPages > 0
    /\ IF ~isSelecting \/ selectionStart = Null \/ selectionEnd = Null
          \/ currentPage = 0 \/ currentViewport = Null
       THEN ResetSelection /\ UNCHANGED vwResolutions
       ELSE /\ Len(vwResolutions) < MaxResolutions
            /\ vwResolutions' =
                  Append(vwResolutions,
                         [pdfPage |-> currentPage, viewport |-> currentViewport,
                          start |-> selectionStart, end |-> selectionEnd,
                          gesture |-> vwGesture, pc |-> "pending",
                          result |-> NotCalled])
            /\ UNCHANGED <<isSelecting, selectionStart, selectionEnd>>
    /\ UNCHANGED <<vwGesture, showCreateDialog, selectedTextData>>
    /\ UNCHANGED <<selVars, storeVars, exVars, renderVars, overlayVars, coordVars, loadVars, dialogVars>>

\* lines 155-181: up to the await of getTextFromSelection
handleMouseUp ==
    /\ stNumPages > 0
    /\ IF ~isSelecting \/ selectionStart = Null \/ selectionEnd = Null
          \/ currentPage = 0 \/ currentViewport = Null
       THEN ResetSelection /\ UNCHANGED vwResolutions
       ELSE IF Abs(selectionEnd.x - selectionStart.x) < minSize
               \/ Abs(selectionEnd.y - selectionStart.y) < minSize
       THEN ResetSelection /\ UNCHANGED vwResolutions
       ELSE /\ Len(vwResolutions) < MaxResolutions
            /\ vwResolutions' =
                  Append(vwResolutions,
                         [pdfPage |-> currentPage, viewport |-> currentViewport,
                          start |-> selectionStart, end |-> selectionEnd,
                          gesture |-> vwGesture, pc |-> "pending",
                          result |-> NotCalled])
            /\ UNCHANGED <<isSelecting, selectionStart, selectionEnd>>
    /\ UNCHANGED <<vwGesture, showCreateDialog, selectedTextData>>
    /\ UNCHANGED <<selVars, storeVars, exVars, renderVars, overlayVars, coordVars, loadVars, dialogVars>>

\* lines 183-197: getTextFromSelection resolved
SelectionResolved ==
    \E i \in 1..Len(vwResolutions), throws \in BOOLEAN :
        LET r == vwResolutions[i]
            g == [startX |-> r.start.x, startY |-> r.start.y,
                  endX |-> r.end.x, endY |-> r.end.y]
        IN /\ r.pc = "pending"
           /\ \E out \in getTextFromSelection(PageTextContent, r.viewport, g, throws, r.pdfPage) :
                 LET textSelection == out.result
                 IN /\ IF textSelection # Null
                       THEN /\ selectedTextData' =
                                  [text |-> textSelection.text,
                                   page |-> textSelection.pageNumber,
                                   bbox |-> textSelection.bbox,
                                   normalizedBbox |-> textSelection.normalizedBbox,
                                   quadPoints |-> textSelection.quadPoints,
                                   normalizedQuads |-> textSelection.normalizedQuads]
                            /\ showCreateDialog' = TRUE
                       ELSE UNCHANGED <<selectedTextData, showCreateDialog>>
                    /\ vwResolutions' =
                          [vwResolutions EXCEPT ![i] = [r EXCEPT !.pc = "done",
                                                                 !.result = textSelection]]
           /\ ResetSelection
           /\ UNCHANGED vwGesture
           /\ UNCHANGED <<selVars, storeVars, exVars, renderVars, overlayVars, coordVars, loadVars, dialogVars>>

\* lines 244-250
onMouseLeave ==
    /\ stNumPages > 0
    /\ isSelecting
    /\ ResetSelection
    /\ UNCHANGED <<vwResolutions, vwGesture, showCreateDialog, selectedTextData>>
    /\ UNCHANGED <<selVars, storeVars, exVars, renderVars, overlayVars, coordVars, loadVars, dialogVars>>

\* lines 293-298: onOpenChange(false)
CloseDialog ==
    /\ selectedTextData # Null
    /\ showCreateDialog' = FALSE
    /\ selectedTextData' = Null
    /\ UNCHANGED <<isSelecting, selectionStart, selectionEnd, vwResolutions, vwGesture>>
    /\ UNCHANGED <<selVars, storeVars, exVars, renderVars, overlayVars, coordVars, loadVars, dialogVars>>

GestureNext ==
    \/ handleMouseDown
    \/ handleMouseMove
    \/ handleMouseUp
    \/ SelectionResolved
    \/ onMouseLeave
    \/ CloseDialog

GestureInit == FirstPageShown /\ GestureIdle /\ OverlayIdle /\ SelIdle /\ ExIdle /\ CoordIdle /\ LoadIdle /\ DialogIdle

SpecGesture == GestureInit /\ [][GestureNext]_vars

----------------------------------------------------------------------------
(* AnnotationOverlay (part_000 lines 315-447)                              *)

\* exact arithmetic on the fractions Div(a, b), b > 0
RatMul(p, n) == Div(p[1] * n, p[2])
RatSub(p, q) == Div(p[1] * q[2] - q[1] * p[2], p[2] * q[2])
\* Math.min(...) and Math.max(...) of four numbers
RatMin4(ps) == ps[CHOOSE i \in 1..4 : \A j \in 1..4 : RatLeq(ps[i], ps[j])]
RatMax4(ps) == ps[CHOOSE i \in 1..4 : \A j \in 1..4 : RatLeq(ps[j], ps[i])]

\* Inputs of the overlay's check: the viewport prop, the sizes
\* getBoundingClientRect reports (0 x 0 for a canvas that is not laid out)
OvViewports == {[width |-> 600, height |-> 800], [width |-> 300, height |-> 400]}
MeasuredSizes == {[width |-> 300, height |-> 400], [width |-> 600, height |-> 800],
                  [width |-> 0, height |-> 0]}

\* a second quad, with its corners in the order the extractor keeps
\* (top-left, top-right, bottom-left, bottom-right)
OtherQuad == <<Div(1, 10), Div(3, 10), Div(3, 10), Div(3, 10),
               Div(1, 10), Div(4, 10), Div(3, 10), Div(4, 10)>>

\* The lists setAnnotations was called with: annotations with one and two
\* quads, with a bbox only, and with neither
OverlayAnnotationLists ==
    { <<Extracted("a1", 1, SomeBbox, << >>),
        Extracted("a2", 1, SomeBbox, <<SomeQuad, OtherQuad>>),
        Extracted("a3", 2, Absent, << >>)>>,
      <<Extracted("a1", 2, SomeBbox, <<OtherQuad>>),
        Extracted("a2", 1, Absent, << >>),
        Extracted("a3", 1, Absent, <<SomeQuad>>)>> }

\* a display width that ignores the measured size
DisplayWidthOfViewport(displaySize, viewport) == viewport.width

\* line 338: canvasDisplaySize?.width || viewport.width
DisplayWidth(displaySize, viewport) ==
    IF displaySize # Null /\ displaySize.width # 0 THEN displaySize.width ELSE viewport.width

\* line 339: canvasDisplaySize?.height || viewport.height
DisplayHeight(displaySize, viewport) ==
    IF displaySize # Null /\ displaySize.height # 0 THEN displaySize.height ELSE viewport.height

\* lines 361-399: the rectangle of quad number index of an annotation
QuadRect(annotation, index, displayWidth, displayHeight) ==
    LET quad == annotation.normalized_quads[index]
        xs == <<quad[1], quad[3], quad[5], quad[7]>>
        ys == <<quad[2], quad[4], quad[6], quad[8]>>
        minX == RatMin4(xs)
        minY == RatMin4(ys)
        maxX == RatMax4(xs)
        maxY == RatMax4(ys)
    IN [annotation_id |-> annotation.annotation_id,
        quad |-> index,
        left |-> RatMul(minX, displayWidth),
        top |-> RatMul(minY, displayHeight),
        width |-> RatMul(RatSub(maxX, minX), displayWidth),
        height |-> RatMul(RatSub(maxY, minY), displayHeight)]

\* lines 410-441: the rectangle of the normalized bbox (quad 0: none)
BboxRect(annotation, displayWidth, displayHeight) ==
    [annotation_id |-> annotation.annotation_id,
     quad |-> 0,
     left |-> RatMul(annotation.normalized_bbox.x, displayWidth),
     top |-> RatMul(annotation.normalized_bbox.y, displayHeight),
     width |-> RatMul(annotation.normalized_bbox.w, displayWidth),
     height |-> RatMul(annotation.normalized_bbox.h, displayHeight)]

\* rectangles of the quads and of the bbox together
AnnotationRectsWithBbox(annotation, displayWidth, displayHeight) ==
    [index \in 1..Len(annotation.normalized_quads) |->
        QuadRect(annotation, index, displayWidth, displayHeight)]
    \o (IF annotation.normalized_bbox = Absent THEN << >>
        ELSE <<BboxRect(annotation, displayWidth, displayHeight)>>)

\* lines 352-443: the elements one annotation is mapped to
AnnotationRects(annotation, displayWidth, displayHeight) ==
    IF Len(annotation.normalized_quads) > 0
    THEN [index \in 1..Len(annotation.normalized_quads) |->
             QuadRect(annotation, index, displayWidth, displayHeight)]
    ELSE IF annotation.normalized_bbox = Absent THEN << >>
    ELSE <<BboxRect(annotation, displayWidth, displayHeight)>>

RECURSIVE RectsFrom(_, _, _, _)
RectsFrom(annotations, n, displayWidth, displayHeight) ==
    IF n > Len(annotations) THEN << >>
    ELSE AnnotationRects(annotations[n], displayWidth, displayHeight)
         \o RectsFrom(annotations, n + 1, displayWidth, displayHeight)

\* lines 350-446: annotations.map(...)
OverlayRects(annotations, displaySize, viewport) ==
    RectsFrom(annotations, 1, DisplayWidth(displaySize, viewport),
              DisplayHeight(displaySize, viewport))

\* line 271: annotationsByPage[viewerState.current_page] || []
PageAnnotations(byPage, page) == IF page \in DOMAIN byPage THEN byPage[page] ELSE << >>

\* The overlay mounted: the document and its annotations are in the store,
\* the first render of the overlay ran, its effect has not measured yet.
OverlayInit ==
    /\ SelIdle
    /\ ExIdle
    /\ CoordIdle /\ LoadIdle /\ DialogIdle
    /\ \E annots \in OverlayAnnotationLists :
          /\ stAnnotations = annots
          /\ stByPage = GroupByPage(annots)
    /\ stNumPages = NumPages
    /\ stLoading = FALSE
    /\ stError = ""
    /\ stViewer = InitialViewerState
    /\ stIdsMade = 0
    /\ stLastOp = [op |-> "setAnnotations", id |-> Undefined, target |-> Absent]
    /\ RenderIdle
    /\ GestureIdle
    /\ ovViewport \in OvViewports
    /\ canvasDisplaySize = Null
    /\ canvasRect \in MeasuredSizes
    /\ ovRects = OverlayRects(PageAnnotations(stByPage, stViewer.current_page), Null, ovViewport)
    /\ ovClicked = Null

\* lines 325-336: the effect, which runs once after the overlay mounted (its
\* dep canvasRef is the same object on every render), calls updateSize; the
\* state change re-renders the overlay
OverlayMeasure ==
    /\ canvasDisplaySize = Null
    /\ canvasDisplaySize' = canvasRect
    /\ ovRects' = OverlayRects(PageAnnotations(stByPage, stViewer.current_page),
                               canvasDisplaySize', ovViewport)
    /\ UNCHANGED <<ovViewport, canvasRect, ovClicked>>
    /\ UNCHANGED <<selVars, storeVars, exVars, renderVars, gestureVars, coordVars, loadVars, dialogVars>>

\* lines 327-334: the window is resized, the canvas is laid out anew and the
\* 'resize' listener the effect registered calls updateSize
OverlayWindowResized ==
    /\ canvasDisplaySize # Null
    /\ \E size \in MeasuredSizes :
          /\ canvasRect' = size
          /\ canvasDisplaySize' = size
    /\ ovRects' = OverlayRects(PageAnnotations(stByPage, stViewer.current_page),
                               canvasDisplaySize', ovViewport)
    /\ UNCHANGED <<ovViewport, ovClicked>>
    /\ UNCHANGED <<selVars, storeVars, exVars, renderVars, gestureVars, coordVars, loadVars, dialogVars>>

\* lines 55-56 and 266-273: the page was rendered at another scale, so the
\* canvas got a new width and height and is laid out anew, and the viewer
\* passes the new viewport; the overlay re-renders with the size it measured
\* before (no listener of the overlay observes the canvas)
OverlayViewportChanged ==
    /\ \E viewport \in OvViewports :
          /\ viewport # ovViewport
          /\ ovViewport' = viewport
    /\ \E size \in MeasuredSizes : canvasRect' = size
    /\ ovRects' = OverlayRects(PageAnnotations(stByPage, stViewer.current_page),
                               canvasDisplaySize, ovViewport')
    /\ UNCHANGED <<canvasDisplaySize, ovClicked>>
    /\ UNCHANGED <<selVars, storeVars, exVars, renderVars, gestureVars, coordVars, loadVars, dialogVars>>

\* App.tsx lines 40-50: the page changes, the overlay gets that page's list
OverlayPageChanged ==
    /\ \E p \in 1..stNumPages :
          /\ p # stViewer.current_page
          /\ updateViewerStatePage(p)
    /\ ovRects' = OverlayRects(PageAnnotations(stByPage, stViewer'.current_page),
                               canvasDisplaySize, ovViewport)
    /\ UNCHANGED <<ovViewport, canvasDisplaySize, canvasRect, ovClicked>>
    /\ UNCHANGED <<selVars, exVars, renderVars, gestureVars, coordVars, loadVars, dialogVars>>

\* lines 397 and 439: onClick of an emitted rectangle
OverlayClick ==
    /\ \E r \in 1..Len(ovRects) :
          /\ selectAnnotation(ovRects[r].annotation_id)
          /\ ovClicked' = ovRects[r]
    /\ ovRects' = OverlayRects(PageAnnotations(stByPage, stViewer'.current_page),
                               canvasDisplaySize, ovViewport)
    /\ UNCHANGED <<ovViewport, canvasDisplaySize, canvasRect>>
    /\ UNCHANGED <<selVars, exVars, renderVars, gestureVars, coordVars, loadVars, dialogVars>>

OverlayNext ==
    \/ OverlayMeasure
    \/ OverlayWindowResized
    \/ OverlayViewportChanged
    \/ OverlayPageChanged
    \/ OverlayClick

SpecOverlay == OverlayInit /\ [][OverlayNext]_vars

\* React runs a mounted component's effects: the measuring effect is not
\* postponed for ever.  Window resizes, zooming, paging and clicks are the
\* user's and need not happen.
SpecOverlayFair == OverlayInit /\ [][OverlayNext]_vars /\ WF_vars(OverlayMeasure)

----------------------------------------------------------------------------
(* Specification of one resolver call on bounded inputs                    *)

Viewports == {[width |-> PageW * s, height |-> PageH * s, scale |-> s] : s \in Scales}

Gestures == [startX : SelXs, startY : SelYs, endX : SelXs, endY : SelYs]

\* A rejected getTextContent() delivers no items.
SelInit ==
    /\ StoreIdle
    /\ ExIdle
    /\ ViewerIdle
    /\ CoordIdle /\ LoadIdle /\ DialogIdle
    /\ selThrows \in BOOLEAN
    /\ selItems \in (IF selThrows THEN {<< >>} ELSE SeqsUpTo(ItemPool, MaxItems))
    /\ selViewport \in Viewports
    /\ selGesture \in Gestures
    /\ selTextItems = << >>
    /\ selResult = NotCalled

\* await getTextFromSelection(pdfPage, viewport, startX, startY, endX, endY)
Resolve ==
    /\ selResult = NotCalled
    /\ \E out \in getTextFromSelection(selItems, selViewport, selGesture, selThrows, 1) :
          /\ selTextItems' = out.textItems
          /\ selResult' = out.result
    /\ UNCHANGED <<selItems, selViewport, selGesture, selThrows>>
    /\ UNCHANGED <<storeVars, exVars, renderVars, gestureVars, overlayVars, coordVars, loadVars, dialogVars>>

SelNext == Resolve

SpecSel == SelInit /\ [][SelNext]_vars

----------------------------------------------------------------------------
(* The coordinate functions (file-handler.ts lines 262-286,                *)
(* text-selection-utils.ts lines 34-45), one call followed at a time.      *)
(* A JavaScript number is a binary floating-point value: the model keeps   *)
(* the rounding of every quotient and product, at MantissaBits significant *)
(* bits instead of 53.  A number is a fraction <<n, d>> in lowest terms    *)
(* with d a power of two; <<1, 0>>, <<-1, 0>> and <<0, 0>> stand for       *)
(* Infinity, -Infinity and NaN.                                            *)

MantissaBits == 8

RECURSIVE Pow2(_)
Pow2(k) == IF k = 0 THEN 1 ELSE 2 * Pow2(k - 1)

PosInfinity == <<1, 0>>
NegInfinity == <<-1, 0>>
NaN == <<0, 0>>

\* a/d (a, d > 0) scaled by powers of two into [2^(MantissaBits-1), 2^MantissaBits):
\* <<a', d', e>> with a/d = (a'/d') * 2^e
RECURSIVE FloatScale(_, _, _)
FloatScale(a, d, e) ==
    IF a >= d * Pow2(MantissaBits) THEN FloatScale(a, 2 * d, e + 1)
    ELSE IF a < d * Pow2(MantissaBits - 1) THEN FloatScale(2 * a, d, e - 1)
    ELSE <<a, d, e>>

\* a/d rounded to the nearest integer, ties to even
RoundHalfEven(a, d) ==
    LET q == a \div d
        r == a % d
    IN IF 2 * r > d \/ (2 * r = d /\ q % 2 = 1) THEN q + 1 ELSE q

RECURSIVE LowestTerms(_, _)
LowestTerms(n, d) ==
    IF d > 1 /\ n % 2 = 0 THEN LowestTerms(n \div 2, d \div 2) ELSE <<n, d>>

\* the number nearest to n/d (d > 0)
RoundToFloat(n, d) ==
    IF n = 0 THEN <<0, 1>>
    ELSE LET s == FloatScale(Abs(n), d, 0)
             m == RoundHalfEven(s[1], s[2])
             sign == IF n < 0 THEN -1 ELSE 1
         IN IF s[3] >= 0 THEN <<sign * m * Pow2(s[3]), 1>>
            ELSE LowestTerms(sign * m, Pow2(-s[3]))

\* a / b of two integers as JavaScript computes it
FloatDiv(a, b) ==
    IF b = 0 THEN (IF a = 0 THEN NaN ELSE IF a > 0 THEN PosInfinity ELSE NegInfinity)
    ELSE IF b < 0 THEN RoundToFloat(-a, -b)
    ELSE RoundToFloat(a, b)

\* p * n of a number and an integer as JavaScript computes it
FloatMul(p, n) ==
    IF p[2] = 0
    THEN (IF p[1] = 0 \/ n = 0 THEN NaN
          ELSE IF p[1] * n > 0 THEN PosInfinity ELSE NegInfinity)
    ELSE RoundToFloat(p[1] * n, p[2])

\* file-handler.ts lines 262-273, each quotient rounded
normalizeCoordinatesFloat(bbox, pageWidth, pageHeight) ==
    [x |-> FloatDiv(bbox.x, pageWidth), y |-> FloatDiv(bbox.y, pageHeight),
     w |-> FloatDiv(bbox.w, pageWidth), h |-> FloatDiv(bbox.h, pageHeight)]

\* text-selection-utils.ts lines 34-45, each quotient rounded
normalizeBboxFloat(bbox, pageWidth, pageHeight) ==
    [x |-> FloatDiv(bbox.x, pageWidth), y |-> FloatDiv(bbox.y, pageHeight),
     w |-> FloatDiv(bbox.w, pageWidth), h |-> FloatDiv(bbox.h, pageHeight)]

\* a denormalization that takes the page height for the horizontal components
denormalizeCoordinatesByHeight(normalizedBbox, pageWidth, pageHeight) ==
    [x |-> FloatMul(normalizedBbox.x, pageHeight), y |-> FloatMul(normalizedBbox.y, pageHeight),
     w |-> FloatMul(normalizedBbox.w, pageHeight), h |-> FloatMul(normalizedBbox.h, pageHeight)]

\* file-handler.ts lines 275-286
denormalizeCoordinates(normalizedBbox, pageWidth, pageHeight) ==
    [x |-> FloatMul(normalizedBbox.x, pageWidth), y |-> FloatMul(normalizedBbox.y, pageHeight),
     w |-> FloatMul(normalizedBbox.w, pageWidth), h |-> FloatMul(normalizedBbox.h, pageHeight)]

\* the arguments followed: boxes in whole units, page dimensions that are
\* positive, zero and negative
CoordBoxes == [x : {0, 15}, y : {0, 29}, w : {15, 29}, h : {8, 15}]
CoordDims == {-8, 0, 7, 8, 11}

CoordInit ==
    /\ StoreIdle
    /\ SelIdle
    /\ ExIdle
    /\ ViewerIdle
    /\ LoadIdle /\ DialogIdle
    /\ coBbox \in CoordBoxes
    /\ coPageWidth \in CoordDims
    /\ coPageHeight \in CoordDims
    /\ coCalled = "none"
    /\ coThrown = "none"
    /\ coNormalized = Null
    /\ coDenormalized = Null

\* a call of normalizeCoordinates: the function has no throw statement and
\* a division of numbers does not throw
CallNormalizeCoordinates ==
    /\ coCalled = "none"
    /\ coCalled' = "normalizeCoordinates"
    /\ coThrown' = "none"
    /\ coNormalized' = normalizeCoordinatesFloat(coBbox, coPageWidth, coPageHeight)
    /\ UNCHANGED <<coBbox, coPageWidth, coPageHeight, coDenormalized>>
    /\ UNCHANGED <<selVars, storeVars, exVars, renderVars, gestureVars, overlayVars, loadVars, dialogVars>>

\* a call of normalizeBbox, likewise
CallNormalizeBbox ==
    /\ coCalled = "none"
    /\ coCalled' = "normalizeBbox"
    /\ coThrown' = "none"
    /\ coNormalized' = normalizeBboxFloat(coBbox, coPageWidth, coPageHeight)
    /\ UNCHANGED <<coBbox, coPageWidth, coPageHeight, coDenormalized>>
    /\ UNCHANGED <<selVars, storeVars, exVars, renderVars, gestureVars, overlayVars, loadVars, dialogVars>>

\* denormalizeCoordinates applied to the returned box with the same dimensions
CallDenormalizeCoordinates ==
    /\ coNormalized # Null
    /\ coDenormalized = Null
    /\ coDenormalized' = denormalizeCoordinates(coNormalized, coPageWidth, coPageHeight)
    /\ UNCHANGED <<coBbox, coPageWidth, coPageHeight, coCalled, coThrown, coNormalized>>
    /\ UNCHANGED <<selVars, storeVars, exVars, renderVars, gestureVars, overlayVars, loadVars, dialogVars>>

CoordNext ==
    \/ CallNormalizeCoordinates
    \/ CallNormalizeBbox
    \/ CallDenormalizeCoordinates

SpecCoord == CoordInit /\ [][CoordNext]_vars

----------------------------------------------------------------------------
\* PdfLoader.handleFileLoad (src/components/PdfLoader.tsx lines 18-67) and
\* the store's loading flag (part_002 lines 59-65)

\* files picked or dropped while the loader is followed
MaxLoads == 2

\* part_002 lines 59-61: set({ isLoading: loading })
IsLoadingAfterSetLoading(isLoading, loading) == loading

\* part_002 lines 63-65: set({ error, isLoading: false })
IsLoadingAfterSetError(isLoading, error) == FALSE

\* the messages the catch block of lines 61-63 can record, by the await the
\* call was at when the error was thrown
LoadErrorAt(pc) ==
    IF pc = "reading" THEN "Invalid PDF file: File does not appear to be a PDF"
    ELSE IF pc = "opening" THEN "Failed to load PDF"
    ELSE "Failed to extract annotations"

LoadsInFlight == {i \in 1..Len(ldCalls) : ldCalls[i].pc # "done"}

\* lines 18-24: setLoading(true), setError(null), then the call awaits
\* readFileAsArrayBuffer
handleFileLoad ==
    /\ Len(ldCalls) < MaxLoads
    /\ ldCalls' = Append(ldCalls, [pc |-> "reading", numPages |-> 0, outcome |-> "none"])
    /\ stLoading' = IsLoadingAfterSetError(IsLoadingAfterSetLoading(stLoading, TRUE), "")
    /\ stError' = ""
    /\ stLastOp' = [op |-> "setError", id |-> Undefined, target |-> Absent]
    /\ UNCHANGED <<stNumPages, stViewer, stAnnotations, stByPage, stIdsMade>>
    /\ UNCHANGED <<selVars, exVars, renderVars, gestureVars, overlayVars, coordVars,
                   dialogVars>>

\* lines 24-36: the file was read and its header is %PDF-; the call awaits
\* getDocument
FileRead(i) ==
    /\ ldCalls[i].pc = "reading"
    /\ ldCalls' = [ldCalls EXCEPT ![i].pc = "opening"]
    /\ UNCHANGED <<storeVars, selVars, exVars, renderVars, gestureVars, overlayVars,
                   coordVars, dialogVars>>

\* lines 36-40: the document was opened and numPages read from it; the call
\* awaits the extraction
DocumentOpened(i) ==
    /\ ldCalls[i].pc = "opening"
    /\ \E numPages \in 1..NumPages :
          ldCalls' = [ldCalls EXCEPT ![i].pc = "extracting", ![i].numPages = numPages]
    /\ UNCHANGED <<storeVars, selVars, exVars, renderVars, gestureVars, overlayVars,
                   coordVars, dialogVars>>

\* lines 40-59 and 64-66: the extraction succeeded; setPdfDocument,
\* setAnnotations, then finally setLoading(false)
DocumentStored(i) ==
    /\ ldCalls[i].pc = "extracting"
    /\ \E r \in ExtractionResults :
          /\ stAnnotations' = r
          /\ stByPage' = GroupByPage(r)
    /\ stNumPages' = ldCalls[i].numPages
    /\ stError' = ""
    /\ stLoading' = IsLoadingAfterSetLoading(stLoading, FALSE)
    /\ stLastOp' = [op |-> "setLoading", id |-> Undefined, target |-> Absent]
    /\ ldCalls' = [ldCalls EXCEPT ![i].pc = "done", ![i].outcome = "stored"]
    /\ UNCHANGED <<stViewer, stIdsMade>>
    /\ UNCHANGED <<selVars, exVars, renderVars, gestureVars, overlayVars, coordVars,
                   dialogVars>>

\* lines 28-30, 36, 42-44 and 61-66: the read or getDocument rejected, the
\* header was not %PDF-, or the extraction reported failure; the catch block
\* calls setError(message), then finally setLoading(false)
LoadFailed(i) ==
    /\ ldCalls[i].pc \in {"reading", "opening", "extracting"}
    /\ stError' = LoadErrorAt(ldCalls[i].pc)
    /\ stLoading' = IsLoadingAfterSetLoading(
                        IsLoadingAfterSetError(stLoading, LoadErrorAt(ldCalls[i].pc)), FALSE)
    /\ stLastOp' = [op |-> "setLoading", id |-> Undefined, target |-> Absent]
    /\ ldCalls' = [ldCalls EXCEPT ![i].pc = "done", ![i].outcome = "error"]
    /\ UNCHANGED <<stNumPages, stViewer, stAnnotations, stByPage, stIdsMade>>
    /\ UNCHANGED <<selVars, exVars, renderVars, gestureVars, overlayVars, coordVars,
                   dialogVars>>


----------------------------------------------------------------------------
\* Page navigation: App.tsx lines 40-50, FeedbackPanel.tsx lines 614-620,
\* CreateAnnotationDialog (part_001) lines 37-88 and 145-157

\* what the user can type in the page input: below, inside and above
\* 1..num_pages, and 0 for text parseInt makes 0 or NaN of
PageInputs == (0 - 1)..(NumPages + 1)

\* part_001 line 151: parseInt(e.target.value) || 1
ParsedPage(v) == IF v = 0 THEN 1 ELSE v

\* a form that is submitted whatever its page input holds
FormSubmitsUnchecked(page, numPages) == TRUE

\* part_001 lines 103 and 145-149: the form has no noValidate and the number
\* input has min={1} max={pdfMeta?.num_pages || 1}, so the submit event
\* reaches handleSubmit only for a value within that range
FormSubmits(page, numPages) ==
    1 <= page /\ page <= (IF numPages # 0 THEN numPages ELSE 1)

\* part_001 lines 63-65: !page || page < 1 records an error and returns
PageAccepted(page) == ~(page = 0 \/ page < 1)

\* PdfLoader.tsx lines 53-54: setPdfDocument, then setAnnotations
NavDocumentLoaded ==
    /\ stNumPages = 0
    /\ stNumPages' = NumPages
    /\ stError' = ""
    /\ \E r \in ExtractionResults :
          /\ stAnnotations' = r
          /\ stByPage' = GroupByPage(r)
    /\ stLastOp' = [op |-> "setAnnotations", id |-> Undefined, target |-> Absent]
    /\ UNCHANGED <<stLoading, stViewer, stIdsMade>>
    /\ UNCHANGED <<selVars, exVars, renderVars, gestureVars, overlayVars, coordVars,
                   loadVars, dialogVars>>

\* App.tsx lines 40-44
handlePreviousPage ==
    /\ stNumPages # 0
    /\ stViewer.current_page > 1
    /\ updateViewerStatePage(stViewer.current_page - 1)
    /\ UNCHANGED <<selVars, exVars, renderVars, gestureVars, overlayVars, coordVars,
                   loadVars, dialogVars>>

\* App.tsx lines 46-50
handleNextPage ==
    /\ stNumPages # 0
    /\ stViewer.current_page < stNumPages
    /\ updateViewerStatePage(stViewer.current_page + 1)
    /\ UNCHANGED <<selVars, exVars, renderVars, gestureVars, overlayVars, coordVars,
                   loadVars, dialogVars>>

\* FeedbackPanel.tsx lines 618-620: a click on the header of one of the pages
\* the sidebar lists, which are the pages of the annotations (lines 569-588)
handlePageClick ==
    /\ \E i \in 1..Len(stAnnotations) : updateViewerStatePage(stAnnotations[i].page)
    /\ UNCHANGED <<selVars, exVars, renderVars, gestureVars, overlayVars, coordVars,
                   loadVars, dialogVars>>

\* FeedbackPanel.tsx lines 614-616 and part_000 lines 398 and 440: a click on
\* a listed or drawn annotation
handleAnnotationClick ==
    /\ \E i \in 1..Len(stAnnotations) : selectAnnotation(stAnnotations[i].annotation_id)
    /\ UNCHANGED <<selVars, exVars, renderVars, gestureVars, overlayVars, coordVars,
                   loadVars, dialogVars>>

\* part_000 lines 176-190 and 286-300, part_001 lines 37 and 42-50: a text
\* selection on the page shown was resolved; the dialog opens with
\* page = initialPage || viewerState.current_page
OpenCreateDialog ==
    /\ stNumPages # 0
    /\ selectedTextData = Null
    /\ selectedTextData' = [text |-> "picked", page |-> stViewer.current_page,
                            bbox |-> [x |-> 4, y |-> 4, w |-> 8, h |-> 4],
                            normalizedBbox |-> SomeBbox,
                            quadPoints |-> <<SomeQuad>>, normalizedQuads |-> <<SomeQuad>>]
    /\ showCreateDialog' = TRUE
    /\ dlgPage' = stViewer.current_page
    /\ UNCHANGED <<isSelecting, selectionStart, selectionEnd, vwResolutions, vwGesture>>
    /\ UNCHANGED <<selVars, storeVars, exVars, renderVars, overlayVars, coordVars,
                   loadVars>>

\* part_001 lines 150-154: the page input's onChange
PageInputChanged ==
    /\ showCreateDialog
    /\ \E v \in PageInputs : dlgPage' = ParsedPage(v)
    /\ UNCHANGED <<selVars, storeVars, exVars, renderVars, gestureVars, overlayVars,
                   coordVars, loadVars>>

\* part_001 lines 52-88 with text and entity type filled in: the annotation
\* is added and onOpenChange(false) closes the dialog (part_000 lines 289-294)
handleSubmit ==
    /\ showCreateDialog
    /\ FormSubmits(dlgPage, stNumPages)
    /\ PageAccepted(dlgPage)
    /\ addUserAnnotation([page |-> dlgPage, span_text |-> selectedTextData.text,
                          entity_type |-> "PERSON", notes |-> Undefined,
                          bbox |-> selectedTextData.bbox,
                          normalized_bbox |-> selectedTextData.normalizedBbox,
                          normalized_quads |-> selectedTextData.normalizedQuads])
    /\ showCreateDialog' = FALSE
    /\ selectedTextData' = Null
    /\ UNCHANGED <<isSelecting, selectionStart, selectionEnd, vwResolutions, vwGesture>>
    /\ UNCHANGED <<selVars, exVars, renderVars, overlayVars, coordVars, loadVars,
                   dialogVars>>

\* The loader together with the clicks on the annotations of the document a
\* finished load has stored (App.tsx lines 150-168: sidebar and viewer are
\* shown once pdfDocument is set)
LoadInit == StoreIdle /\ SelIdle /\ ExIdle /\ ViewerIdle /\ CoordIdle /\ LoadIdle /\ DialogIdle

LoadNext ==
    \/ handleFileLoad
    \/ \E i \in 1..Len(ldCalls) : FileRead(i)
    \/ \E i \in 1..Len(ldCalls) : DocumentOpened(i)
    \/ \E i \in 1..Len(ldCalls) : DocumentStored(i)
    \/ \E i \in 1..Len(ldCalls) : LoadFailed(i)
    \/ handleAnnotationClick

SpecLoad == LoadInit /\ [][LoadNext]_vars

NavInit == StoreIdle /\ SelIdle /\ ExIdle /\ ViewerIdle /\ CoordIdle /\ LoadIdle /\ DialogIdle

NavNext ==
    \/ NavDocumentLoaded
    \/ handlePreviousPage
    \/ handleNextPage
    \/ handlePageClick
    \/ handleAnnotationClick
    \/ OpenCreateDialog
    \/ PageInputChanged
    \/ handleSubmit
    \/ CloseDialog

SpecNav == NavInit /\ [][NavNext]_vars

----------------------------------------------------------------------------
\* From a text selection to the stored annotation: getTextFromSelection at
\* the viewport's zoom scale, part_000 lines 183-193, the dialog's
\* handleSubmit and the store's addUserAnnotation

\* Bound: text items on the page of a selection that is followed into the store
MaxCreateItems == 1

\* part_000 lines 183-193: the resolved selection is handed to the dialog
SelectionShown ==
    /\ selResult # NotCalled
    /\ selResult # Null
    /\ selectedTextData = Null
    /\ stIdsMade = 0
    /\ selectedTextData' = [text |-> selResult.text, page |-> selResult.pageNumber,
                            bbox |-> selResult.bbox,
                            normalizedBbox |-> selResult.normalizedBbox,
                            quadPoints |-> selResult.quadPoints,
                            normalizedQuads |-> selResult.normalizedQuads]
    /\ showCreateDialog' = TRUE
    /\ dlgPage' = selResult.pageNumber
    /\ UNCHANGED <<isSelecting, selectionStart, selectionEnd, vwResolutions, vwGesture>>
    /\ UNCHANGED <<selVars, storeVars, exVars, renderVars, overlayVars, coordVars,
                   loadVars>>

CreateInit ==
    /\ StoreIdle
    /\ ExIdle
    /\ ViewerIdle
    /\ CoordIdle /\ LoadIdle /\ DialogIdle
    /\ selThrows = FALSE
    /\ selItems \in SeqsUpTo(ItemPool, MaxCreateItems)
    /\ selViewport \in Viewports
    /\ selGesture \in Gestures
    /\ selTextItems = << >>
    /\ selResult = NotCalled

CreateNext ==
    \/ Resolve
    \/ SelectionShown
    \/ handleSubmit

SpecCreate == CreateInit /\ [][CreateNext]_vars

----------------------------------------------------------------------------
(* Claims about the resolver (checked under SpecSel)                       *)

\* The text the rule "one space between two adjacent runs exactly when they
\* are on the same line (vertical difference not above 5) and the gap
\* next.x - (prev.x + prev.width) exceeds 2, nothing otherwise" gives.
RECURSIVE GapRuleText(_, _)
GapRuleText(sorted, i) ==
    IF i > Len(sorted) THEN ""
    ELSE (IF /\ i > 1
             /\ Abs(sorted[i].y - sorted[i - 1].y) <= 5
             /\ sorted[i].x - (sorted[i - 1].x + sorted[i - 1].width) > 2
          THEN " " ELSE "")
         \o sorted[i].str \o GapRuleText(sorted, i + 1)

\* C1: between two runs adjacent in the sorted output exactly one space is
\* inserted iff they are on the same line and the horizontal gap
\* next.x - (prev.x + prev.width) exceeds 2 px, and nothing otherwise; runs
\* "Hello" (x=0, w=10) and "World" (x=20, w=10), fully covered, give
\* "Hello World".
C1_SpaceIffGapAbove2 ==
    selResult \notin {NotCalled, Null} =>
        selResult.text = GapRuleText(selTextItems, 1)

\* The run rectangle, its area and its overlap with the selection, for the
\* raw item at position i
RunArea(i) ==
    ItemRect(selItems[i], selViewport).width * ItemRect(selItems[i], selViewport).height

RunOverlap(i) ==
    getIntersectionArea(SelectionRect(selGesture), ItemRect(selItems[i], selViewport))

RunSelected(i) == \E k \in 1..Len(selTextItems) : selTextItems[k].itemIndex = i - 1

TextRuns == {i \in 1..Len(selItems) : ~IsBlank(selItems[i].str)}

C7_NullIffNoRunQualifies ==
    selResult # NotCalled =>
        /\ (selResult = Null) <=>
              ~\E i \in TextRuns :
                    RunArea(i) > 0 /\ 10 * RunOverlap(i) >= 3 * RunArea(i)
        /\ selResult # Null => (selResult.text # "" /\ Len(selTextItems) >= 1)

\* A zero-area selection rectangle over a page that has text runs returned null.
C7_Witness ==
    /\ selResult = Null
    /\ ~selThrows
    /\ TextRuns # {}
    /\ SelectionRect(selGesture).width * SelectionRect(selGesture).height = 0

----------------------------------------------------------------------------
(* Claims about the store (checked under SpecStore)                        *)

IdsOf(annots) == {annots[i].annotation_id : i \in 1..Len(annots)}

\* the annotations of every page-indexed list
ByPageEntries(byPage) == UNION {Range(byPage[p]) : p \in DOMAIN byPage}

\* C5: deleteUserAnnotation(id) leaves the whole store state unchanged when
\* id names no annotation or one that is not user-created; when id names a
\* user-created annotation, afterwards it is in neither the flat list nor any
\* page's list, and every other annotation is still present and unchanged in
\* both.
C5_DeleteUserAnnotationFrame ==
    [][stLastOp'.op = "deleteUserAnnotation" =>
        LET id == stLastOp'.id
            userOwned == \E a \in Range(stAnnotations) :
                            a.annotation_id = id /\ a.is_user_created
        IN IF ~userOwned
           THEN UNCHANGED <<stNumPages, stLoading, stError, stViewer,
                            stAnnotations, stByPage>>
           ELSE /\ id \notin IdsOf(stAnnotations')
                /\ \A a \in ByPageEntries(stByPage') : a.annotation_id # id
                /\ \A a \in Range(stAnnotations) :
                      a.annotation_id # id => a \in Range(stAnnotations')
                /\ \A p \in DOMAIN stByPage : \A a \in Range(stByPage[p]) :
                      a.annotation_id # id =>
                          p \in DOMAIN stByPage' /\ a \in Range(stByPage'[p])
                /\ Range(stAnnotations') \subseteq Range(stAnnotations)
                /\ ByPageEntries(stByPage') \subseteq ByPageEntries(stByPage)
    ]_vars

\* deleteUserAnnotation has just removed a user-created annotation that was
\* listed beside an extracted one, which is still there.
C5_Witness ==
    /\ stLastOp.op = "deleteUserAnnotation"
    /\ stLastOp.target # Absent
    /\ stLastOp.target.is_user_created
    /\ stLastOp.id \notin IdsOf(stAnnotations)
    /\ "a1" \in IdsOf(stAnnotations)

\* annotation b is annotation a with, at most, another feedback_type and
\* other notes
SameButFeedback(a, b) == [a EXCEPT !.feedback_type = b.feedback_type, !.notes = b.notes] = b

AnnotationOps == {"addUserAnnotation", "updateAnnotationFeedback", "updateUserAnnotation",
                  "deleteUserAnnotation", "selectAnnotation"}

\* C12: across a call of addUserAnnotation, updateAnnotationFeedback,
\* updateUserAnnotation, deleteUserAnnotation or selectAnnotation, every
\* annotation that is not user-created stays in the flat list and in its
\* page's list with no field changed other than feedback_type and notes;
\* updateUserAnnotation and deleteUserAnnotation aimed at such an annotation
\* leave the store state unchanged.
C12_ExtractedAnnotationsProtected ==
    [][stLastOp'.op \in AnnotationOps =>
        /\ Len(stAnnotations') >= Len(SelectSeq(stAnnotations, LAMBDA a : ~a.is_user_created))
        /\ \A i \in 1..Len(stAnnotations) :
              ~stAnnotations[i].is_user_created =>
                  \E j \in 1..Len(stAnnotations') :
                      SameButFeedback(stAnnotations[i], stAnnotations'[j])
        /\ \A p \in DOMAIN stByPage : \A i \in 1..Len(stByPage[p]) :
              ~stByPage[p][i].is_user_created =>
                  /\ p \in DOMAIN stByPage'
                  /\ \E j \in 1..Len(stByPage'[p]) :
                        SameButFeedback(stByPage[p][i], stByPage'[p][j])
        /\ (/\ stLastOp'.op \in {"updateUserAnnotation", "deleteUserAnnotation"}
            /\ stLastOp'.target # Absent
            /\ ~stLastOp'.target.is_user_created)
           => UNCHANGED <<stNumPages, stLoading, stError, stViewer, stAnnotations,
                          stByPage, stIdsMade>>
    ]_vars

\* updateUserAnnotation was just aimed at an extracted annotation whose
\* feedback had been updated before, in a store that also holds a
\* user-created annotation.
C12_Witness ==
    /\ stLastOp.op = "updateUserAnnotation"
    /\ stLastOp.target # Absent
    /\ ~stLastOp.target.is_user_created
    /\ stLastOp.target.feedback_type = "true_positive"
    /\ stLastOp.target.notes = "note"
    /\ \E i \in 1..Len(stAnnotations) : stAnnotations[i].is_user_created

----------------------------------------------------------------------------
(* Claims about the extractor (checked under SpecExtract)                  *)

\* C2: for an annotation built from a record with a multi-quad array,
\* quad_points and normalized_quads are in the same top-left convention:
\* normalized_quads[i][j] = quad_points[i][j] divided by the page width (x)
\* or the page height (y).
C2_NormalizedQuadsMatchQuadPoints ==
    \A n \in 1..Len(exAnnotations) :
        LET a == exAnnotations[n]
            size == exSources[n].pageSize
        IN \A i \in 1..Len(a.quad_points) : \A j \in 1..8 :
              RatEq(a.normalized_quads[i][j],
                    Div(a.quad_points[i][j],
                        IF j % 2 = 1 THEN size.width ELSE size.height))

\* C8: the bbox of a record with rect [x1,y1,x2,y2] on a page of height H is
\* {x: min(x1,x2), y: H - max(y1,y2), w: |x2-x1|, h: |y2-y1|}, w and h not
\* negative, whatever the order of the corners; rect [100,200,180,215] with
\* H = 800 gives {x:100, y:585, w:80, h:15}.
C8_BboxFromRect ==
    \A n \in 1..Len(exAnnotations) :
        LET rect == exSources[n].record.rect
            H == exSources[n].pageSize.height
            bbox == exAnnotations[n].bbox
        IN rect # << >> =>
            LET x1 == rect[1]
                y1 == rect[2]
                x2 == rect[3]
                y2 == rect[4]
            IN /\ bbox.x = (IF x1 <= x2 THEN x1 ELSE x2)
               /\ bbox.y = H - (IF y1 >= y2 THEN y1 ELSE y2)
               /\ bbox.w = (IF x2 >= x1 THEN x2 - x1 ELSE x1 - x2)
               /\ bbox.h = (IF y2 >= y1 THEN y2 - y1 ELSE y1 - y2)
               /\ bbox.w >= 0 /\ bbox.h >= 0
               /\ bbox = extractSingleAnnotationRect(rect, exSources[n].pageSize)
               /\ (rect = <<100, 200, 180, 215>> /\ H = 800) =>
                     bbox = [x |-> 100, y |-> 585, w |-> 80, h |-> 15]

\* Both corner orders of the example rectangle were extracted on a page of
\* height 800.
C8_Witness ==
    /\ \E n \in 1..Len(exAnnotations) :
          /\ exSources[n].record.rect = <<100, 200, 180, 215>>
          /\ exSources[n].pageSize.height = 800
    /\ \E n \in 1..Len(exAnnotations) :
          exSources[n].record.rect = <<180, 215, 100, 200>>

----------------------------------------------------------------------------
(* Claims about the render pipeline (checked under SpecRender)             *)

\* the render tasks that were started and have neither completed nor been
\* cancelled
InFlight == {t \in 1..Len(vwTasks) : vwTasks[t] = "running"}

\* C3: at every moment at most one render task is in flight for the canvas.
C3_AtMostOneRenderInFlight == Cardinality(InFlight) <= 1

\* C11: a render that ends because its task was cancelled is never logged
\* or surfaced as an error, a render that ends with any other exception is
\* logged as an error, and in neither case does the exception escape
\* renderPage.
C11_CancellationSwallowedOthersLogged ==
    /\ stError = ""
    /\ \A i \in 1..Len(vwCalls) :
          LET call == vwCalls[i]
          IN /\ ~call.escaped
             /\ call.logged <=> (call.pc = "done" /\ call.err = "Error")
             /\ (call.pc = "done" /\ call.task # 0 /\ vwTasks[call.task] = "cancelled")
                   => (call.err = "RenderingCancelledException" /\ ~call.logged)
             /\ (call.pc = "done" /\ call.task # 0 /\ vwTasks[call.task] = "failed")
                   => call.logged

\* One invocation ended by the cancellation of its task and another by a
\* different exception.
C11_Witness ==
    /\ \E i \in 1..Len(vwCalls) :
          vwCalls[i].pc = "done" /\ vwCalls[i].err = "RenderingCancelledException"
    /\ \E i \in 1..Len(vwCalls) :
          vwCalls[i].pc = "done" /\ vwCalls[i].err = "Error" /\ vwCalls[i].task # 0

----------------------------------------------------------------------------
(* Claims about the selection gesture (checked under SpecGesture)          *)

\* the handleMouseUp invocations awaiting getTextFromSelection
PendingResolutions == {i \in 1..Len(vwResolutions) : vwResolutions[i].pc = "pending"}

\* C4: two selections are never concurrent: at most one resolution is
\* pending, and a resolution that completes while a gesture begun by a later
\* pointer-down is in progress leaves isSelecting, selectionStart and
\* selectionEnd as they are.
C4_SelectionsNeverConcurrent ==
    /\ [](Cardinality(PendingResolutions) <= 1)
    /\ [][\A i \in PendingResolutions :
            (/\ vwResolutions'[i].pc = "done"
             /\ isSelecting
             /\ vwGesture > vwResolutions[i].gesture)
            => (/\ isSelecting' = isSelecting
                /\ selectionStart' = selectionStart
                /\ selectionEnd' = selectionEnd)]_vars

----------------------------------------------------------------------------
(* Claims about the overlay (checked under SpecOverlay)                    *)

\* the annotations the overlay was given at its last render
OverlayAnnotations == PageAnnotations(stByPage, stViewer.current_page)

\* the emitted rectangles that belong to one annotation, in order
RectsOf(annotation) ==
    SelectSeq(ovRects, LAMBDA r : r.annotation_id = annotation.annotation_id)

\* the four values of a rectangle are those of a normalized bbox scaled by a
\* display size
ScaledBbox(r, nb, displayWidth, displayHeight) ==
    /\ RatEq(r.left, RatMul(nb.x, displayWidth))
    /\ RatEq(r.top, RatMul(nb.y, displayHeight))
    /\ RatEq(r.width, RatMul(nb.w, displayWidth))
    /\ RatEq(r.height, RatMul(nb.h, displayHeight))

\* C9 as stated: a rectangle rendered from a normalized bbox is the bbox
\* scaled by the measured size of the canvas, and by the viewport size while
\* no size has been measured.
C9_BboxRectScaledByMeasuredSize ==
    \A n \in 1..Len(OverlayAnnotations) :
        LET a == OverlayAnnotations[n]
            size == IF canvasDisplaySize = Null THEN ovViewport ELSE canvasDisplaySize
        IN (Len(a.normalized_quads) = 0 /\ a.normalized_bbox # Absent) =>
              \A k \in 1..Len(RectsOf(a)) :
                  ScaledBbox(RectsOf(a)[k], a.normalized_bbox, size.width, size.height)

\* C9, amended: a rectangle rendered from a normalized bbox is the bbox
\* scaled by the display size, where the display width (height) is the
\* measured width (height) of the canvas when one has been measured and it is
\* not 0, and the viewport's width (height) otherwise; viewport 600x800,
\* display 300x400 and bbox {0.1, 0.1, 0.2, 0.1} give {30, 40, 60, 40}.
C9_BboxRectScaledByDisplaySize ==
    \A n \in 1..Len(OverlayAnnotations) :
        LET a == OverlayAnnotations[n]
            measured == canvasDisplaySize # Null
            displayWidth == IF measured /\ canvasDisplaySize.width # 0
                            THEN canvasDisplaySize.width ELSE ovViewport.width
            displayHeight == IF measured /\ canvasDisplaySize.height # 0
                             THEN canvasDisplaySize.height ELSE ovViewport.height
        IN (Len(a.normalized_quads) = 0 /\ a.normalized_bbox # Absent) =>
              /\ Len(RectsOf(a)) = 1
              /\ ScaledBbox(RectsOf(a)[1], a.normalized_bbox, displayWidth, displayHeight)
              /\ (/\ ovViewport = [width |-> 600, height |-> 800]
                  /\ canvasDisplaySize = [width |-> 300, height |-> 400]
                  /\ a.normalized_bbox = [x |-> Div(1, 10), y |-> Div(1, 10),
                                          w |-> Div(2, 10), h |-> Div(1, 10)])
                 => /\ RatEq(RectsOf(a)[1].left, Div(30, 1))
                    /\ RatEq(RectsOf(a)[1].top, Div(40, 1))
                    /\ RatEq(RectsOf(a)[1].width, Div(60, 1))
                    /\ RatEq(RectsOf(a)[1].height, Div(40, 1))

\* The example of the claim: a bbox rectangle drawn on a 600x800 viewport
\* whose canvas was measured at 300x400.
C9_Witness ==
    /\ ovViewport = [width |-> 600, height |-> 800]
    /\ canvasDisplaySize = [width |-> 300, height |-> 400]
    /\ \E k \in 1..Len(ovRects) : ovRects[k].quad = 0 /\ RatEq(ovRects[k].left, Div(30, 1))

\* value v is the smallest (largest) of the four values vs
IsMinOf(v, vs) == (\E j \in 1..4 : RatEq(v, vs[j])) /\ (\A j \in 1..4 : RatLeq(v, vs[j]))
IsMaxOf(v, vs) == (\E j \in 1..4 : RatEq(v, vs[j])) /\ (\A j \in 1..4 : RatLeq(vs[j], v))

RatAdd(p, q) == Div(p[1] * q[2] + q[1] * p[2], p[2] * q[2])

\* rectangle r spans the min/max bounds of the four corners of quad q
BoundsOfQuad(r, q, displayWidth, displayHeight) ==
    LET xs == <<RatMul(q[1], displayWidth), RatMul(q[3], displayWidth),
                RatMul(q[5], displayWidth), RatMul(q[7], displayWidth)>>
        ys == <<RatMul(q[2], displayHeight), RatMul(q[4], displayHeight),
                RatMul(q[6], displayHeight), RatMul(q[8], displayHeight)>>
    IN /\ IsMinOf(r.left, xs)
       /\ IsMinOf(r.top, ys)
       /\ IsMaxOf(RatAdd(r.left, r.width), xs)
       /\ IsMaxOf(RatAdd(r.top, r.height), ys)

\* C10: for every annotation of the current page the overlay emits exactly k
\* rectangles when it has k >= 1 normalized quads (one per quad, the min/max
\* bounds of its corners, none for the bbox), exactly one from the normalized
\* bbox when it has no quads, and none when it has neither; the click on an
\* emitted rectangle selected the annotation that owns it.
C10_OneRectPerQuadElseBbox ==
    LET displayWidth == DisplayWidth(canvasDisplaySize, ovViewport)
        displayHeight == DisplayHeight(canvasDisplaySize, ovViewport)
    IN /\ \A n \in 1..Len(OverlayAnnotations) :
             LET a == OverlayAnnotations[n]
                 mine == RectsOf(a)
                 k == Len(a.normalized_quads)
             IN IF k >= 1
                THEN /\ Len(mine) = k
                     /\ \A i \in 1..k :
                           /\ mine[i].quad = i
                           /\ BoundsOfQuad(mine[i], a.normalized_quads[i],
                                           displayWidth, displayHeight)
                ELSE IF a.normalized_bbox # Absent
                THEN /\ Len(mine) = 1
                     /\ mine[1].quad = 0
                     /\ ScaledBbox(mine[1], a.normalized_bbox, displayWidth, displayHeight)
                ELSE Len(mine) = 0
       /\ \A k \in 1..Len(ovRects) :
             \E n \in 1..Len(OverlayAnnotations) :
                 OverlayAnnotations[n].annotation_id = ovRects[k].annotation_id
       /\ stLastOp.op = "selectAnnotation" =>
             /\ ovClicked # Null
             /\ stLastOp.target # Absent
             /\ stLastOp.target.annotation_id = ovClicked.annotation_id
             /\ stViewer.current_annotation_id = ovClicked.annotation_id
             /\ stViewer.current_page = stLastOp.target.page
             /\ \E n \in 1..Len(OverlayAnnotations) :
                   OverlayAnnotations[n] = stLastOp.target

\* The second rectangle of a two-quad annotation was clicked, on a page that
\* also shows an annotation drawn from its bbox.
C10_Witness ==
    /\ stLastOp.op = "selectAnnotation"
    /\ ovClicked # Null
    /\ ovClicked.quad = 2
    /\ \E n \in 1..Len(OverlayAnnotations) :
          /\ Len(OverlayAnnotations[n].normalized_quads) = 0
          /\ OverlayAnnotations[n].normalized_bbox # Absent

----------------------------------------------------------------------------
(* Claims about the stored geometry                                        *)

\* a normalized box lies within the unit square
InUnitSquare(nb) ==
    /\ RatLeq(Div(0, 1), nb.x) /\ RatLeq(nb.x, Div(1, 1))
    /\ RatLeq(Div(0, 1), nb.y) /\ RatLeq(nb.y, Div(1, 1))
    /\ RatLeq(Div(0, 1), nb.w) /\ RatLeq(nb.w, Div(1, 1))
    /\ RatLeq(Div(0, 1), nb.h) /\ RatLeq(nb.h, Div(1, 1))
    /\ RatLeq(RatAdd(nb.x, nb.w), Div(1, 1))
    /\ RatLeq(RatAdd(nb.y, nb.h), Div(1, 1))

\* C13: every normalized bbox the extractor computed from a native rect, and
\* every one the resolver computed from a gesture, has x, y, w and h in [0,1]
\* with x+w <= 1 and y+h <= 1.
C13_NormalizedBboxInUnitSquare ==
    /\ \A n \in 1..Len(exAnnotations) : InUnitSquare(exAnnotations[n].normalized_bbox)
    /\ selResult.kind = "selection" => InUnitSquare(selResult.normalizedBbox)

\* the four corners of a quad in the order top-left, top-right, bottom-right,
\* bottom-left of an axis-aligned rectangle
AxisAlignedQuad(q) ==
    /\ Len(q) = 8
    /\ q[1] = q[7] /\ q[2] = q[4] /\ q[3] = q[5] /\ q[6] = q[8]

\* C14: every quad stored in quad_points, by the resolver or by the extractor,
\* is an axis-aligned rectangle with x1 = x4, y1 = y2, x2 = x3 and y3 = y4.
C14_StoredQuadsAxisAligned ==
    /\ \A n \in 1..Len(exAnnotations) :
          \A k \in 1..Len(exAnnotations[n].quad_points) :
              AxisAlignedQuad(exAnnotations[n].quad_points[k])
    /\ selResult.kind = "selection" =>
          \A k \in 1..Len(selResult.quadPoints) : AxisAlignedQuad(selResult.quadPoints[k])

----------------------------------------------------------------------------
(* Claims about the coordinate functions                                   *)

\* C15: normalizeBbox or normalizeCoordinates called with a page width or a
\* page height that is zero or negative fails with an InvalidDimension error
\* and returns no box.
C15_NonPositiveDimensionRejected ==
    (coCalled # "none" /\ (coPageWidth <= 0 \/ coPageHeight <= 0))
        => (coThrown = "InvalidDimension" /\ coNormalized = Null)

\* the round trip returned exactly the number v
SameNumber(p, v) == p[2] # 0 /\ p[1] = v * p[2]

\* the round trip returned v up to the two roundings it went through: a
\* relative error of at most 2^-(MantissaBits - 2)
NumberWithinRounding(p, v) ==
    p[2] > 0 /\ Abs(p[1] - v * p[2]) * Pow2(MantissaBits - 2) <= Abs(v) * p[2]

\* a round trip through normalizeCoordinates with positive dimensions is done
RoundTripDone ==
    /\ coCalled = "normalizeCoordinates"
    /\ coDenormalized # Null
    /\ coPageWidth > 0 /\ coPageHeight > 0

\* C17 as stated: denormalizeCoordinates(normalizeCoordinates(bbox, w, h), w, h)
\* equals bbox in all four components for every w, h > 0.
C17_RoundTripExact ==
    RoundTripDone =>
        /\ SameNumber(coDenormalized.x, coBbox.x)
        /\ SameNumber(coDenormalized.y, coBbox.y)
        /\ SameNumber(coDenormalized.w, coBbox.w)
        /\ SameNumber(coDenormalized.h, coBbox.h)

\* C17 amended: for every w, h > 0 the round trip returns each component of
\* bbox up to floating-point rounding.
C17_RoundTripWithinRounding ==
    RoundTripDone =>
        /\ NumberWithinRounding(coDenormalized.x, coBbox.x)
        /\ NumberWithinRounding(coDenormalized.y, coBbox.y)
        /\ NumberWithinRounding(coDenormalized.w, coBbox.w)
        /\ NumberWithinRounding(coDenormalized.h, coBbox.h)

\* a round trip of a box whose x is not returned exactly
C17_Witness ==
    /\ RoundTripDone
    /\ coBbox.x # 0
    /\ coPageWidth # coPageHeight
    /\ ~SameNumber(coDenormalized.x, coBbox.x)

----------------------------------------------------------------------------
(* Claims about failures during extraction                                 *)

\* C16: when one record (or one page) throws, exactly one entry is appended
\* to errors, the loop goes on with the later records (pages), the
\* annotations are those of the other records alone, and the call returns
\* success: true.
C16_FailureIsolated ==
    [][/\ Len(exErrors') # Len(exErrors) =>
             /\ Len(exErrors') = Len(exErrors) + 1
             /\ SubSeq(exErrors', 1, Len(exErrors)) = exErrors
             /\ exAnnotations' = exAnnotations
             /\ exPc = "records" =>
                   /\ exErrors'[Len(exErrors')] = [of |-> "annotation", page |-> exPageNumber]
                   /\ exPc' = "records"
                   /\ exPageNumber' = exPageNumber
             /\ exPc = "loop" =>
                   /\ exErrors'[Len(exErrors')] = [of |-> "page", page |-> exPageNumber]
                   /\ exPc' = "loop"
                   /\ exPageNumber' = exPageNumber + 1
       /\ \A n \in 1..Len(exAnnotations') :
             exAnnotations'[n] = ExtractedAnnotation(exSources'[n].record, exAnnotations'[n].page,
                                                     exSources'[n].pageSize, RecordId(n))
       /\ exPc' = "done" =>
             /\ exPageNumber' = exNumPages + 1
             /\ ExResult'.success = TRUE
             /\ ExResult'.annotations = exAnnotations'
             /\ ExResult'.errors = exErrors'
      ]_vars

\* a call returned after a record of page 1 threw and a record of page 2 was
\* extracted
C16_Witness ==
    /\ exPc = "done"
    /\ Len(exErrors) >= 1
    /\ exErrors[1] = [of |-> "annotation", page |-> 1]
    /\ Len(exAnnotations) >= 1
    /\ exAnnotations[1].page = 2

----------------------------------------------------------------------------
(* Claims about the reading order and the lines of a selection             *)

\* C18: in the order used for concatenation, of every two selected runs whose
\* y differ by more than 5 px the one with the smaller y comes first, and of
\* every two whose y differ by 5 px or less the one with the smaller x comes
\* first, for every set of selected runs.
C18_ReadingOrderPairwise ==
    selResult.kind = "selection" =>
        \A i, j \in 1..Len(selTextItems) :
            i < j =>
                LET a == selTextItems[i]
                    b == selTextItems[j]
                IN IF Abs(a.y - b.y) > 5 THEN a.y < b.y ELSE a.x <= b.x

\* the number of lines the concatenation of lines 196-208 sees: the first run
\* and every run that is a new line after its predecessor
ConcatenatedLines(sorted) ==
    Cardinality({i \in 1..Len(sorted) : i = 1 \/ IsNewLine(sorted, i)})

\* two runs are in the same group of the grouping of lines 246-258
SameGroup(sorted, a, b) ==
    \E k \in 1..Len(GroupLines(sorted)) :
        a \in Range(GroupLines(sorted)[k]) /\ b \in Range(GroupLines(sorted)[k])

\* C19: the grouping behind the quads puts two selected runs in the same line
\* exactly when their y differ by 5 px or less, as the ordering and the
\* concatenation do, and a multi-run selection has as many quads as its
\* concatenated text has lines.
C19_QuadsMatchLines ==
    (selResult.kind = "selection" /\ Len(selTextItems) > 1) =>
        /\ \A i, j \in 1..Len(selTextItems) :
              SameGroup(selTextItems, selTextItems[i], selTextItems[j])
                  <=> Abs(selTextItems[i].y - selTextItems[j].y) <= 5
        /\ Len(selResult.quadPoints) = ConcatenatedLines(selTextItems)

----------------------------------------------------------------------------
(* Claims about the overlay's display size                                 *)

\* C20: after any change of the canvas's on-screen size, by a window resize
\* or by the canvas being resized for a new page or zoom scale, the display
\* size the overlay multiplies by is measured again: whenever it differs
\* from the current bounding-rect size of a canvas that is laid out, it comes
\* to equal the canvas's bounding-rect size.
DisplayMatchesCanvas ==
    /\ DisplayWidth(canvasDisplaySize, ovViewport) = canvasRect.width
    /\ DisplayHeight(canvasDisplaySize, ovViewport) = canvasRect.height

CanvasLaidOut == canvasRect.width # 0 /\ canvasRect.height # 0

C20_DisplaySizeRemeasured ==
    (CanvasLaidOut /\ ~DisplayMatchesCanvas) ~> (DisplayMatchesCanvas \/ ~CanvasLaidOut)

----------------------------------------------------------------------------
(* Claims about the pointer-up                                             *)

\* the dragged rectangle of a pointer-up that called the resolver
DragWide(r) == Abs(r.end.x - r.start.x) >= minSize /\ Abs(r.end.y - r.start.y) >= minSize

\* the step is a pointer-up that called the resolver
ResolverCalled == Len(vwResolutions') = Len(vwResolutions) + 1

\* the step is the continuation of the pointer-up number i after the resolver
\* returned
ResolverReturned(i) ==
    /\ i <= Len(vwResolutions)
    /\ vwResolutions[i].pc = "pending"
    /\ vwResolutions'[i].pc = "done"

\* the step leaves the gesture idle and nothing else changed
OnlyGestureReset ==
    /\ ~isSelecting' /\ selectionStart' = Null /\ selectionEnd' = Null
    /\ UNCHANGED <<showCreateDialog, selectedTextData, vwGesture>>
    /\ UNCHANGED <<storeVars, renderVars, overlayVars>>

\* C21: a pointer-up opens the create dialog if and only if a gesture was in
\* progress, the dragged rectangle is at least 10 px wide and high and the
\* resolver returned a selection; under 10 px the resolver is not called; a
\* pointer-up that does not open the dialog only resets the gesture.
C21_DialogOpensIffSelectionResolved ==
    [][/\ ResolverCalled =>
             /\ isSelecting /\ selectionStart # Null /\ selectionEnd # Null
             /\ vwResolutions'[Len(vwResolutions')].start = selectionStart
             /\ vwResolutions'[Len(vwResolutions')].end = selectionEnd
             /\ DragWide(vwResolutions'[Len(vwResolutions')])
             /\ UNCHANGED <<showCreateDialog, selectedTextData>>
       /\ \A i \in 1..MaxResolutions :
             ResolverReturned(i) =>
                LET textSelection == vwResolutions'[i].result
                IN /\ DragWide(vwResolutions[i])
                   /\ IF textSelection # Null
                      THEN /\ showCreateDialog'
                           /\ selectedTextData'.text = textSelection.text
                           /\ selectedTextData'.bbox = textSelection.bbox
                      ELSE OnlyGestureReset
       /\ (showCreateDialog' /\ ~showCreateDialog) =>
             \E i \in 1..MaxResolutions :
                 ResolverReturned(i) /\ vwResolutions'[i].result # Null
       /\ (handleMouseUp /\ ~ResolverCalled) =>
             /\ vwResolutions' = vwResolutions
             /\ OnlyGestureReset
      ]_vars

\* the dialog is open after the pointer-up of the second gesture, whose
\* selection was resolved
C21_Witness ==
    /\ showCreateDialog
    /\ Len(vwResolutions) = 1
    /\ vwResolutions[1].pc = "done"
    /\ vwResolutions[1].result # Null
    /\ vwResolutions[1].gesture = 2

----------------------------------------------------------------------------
(* Claims about the returned bounding box                                  *)

----------------------------------------------------------------------------
(* Claims about the title of an extracted annotation                       *)

\* the type tag line 72 gives the record
TypeTag(record) == IF record.subtype = Undefined THEN "Unknown" ELSE record.subtype

\* C23 as stated: annotation_title is the first non-empty value among the
\* title object, the content string, the contents object, author, creator,
\* subject and name, in this order, and the lower-cased type tag when none
\* of them is present.
C23_TitleFromSevenCandidates ==
    \A n \in 1..Len(exAnnotations) :
        LET fields == exSources[n].record.fields
            first == FirstTruthy(<<StrOf(fields.titleObj), fields.content,
                                   StrOf(fields.contentsObj), fields.author, fields.creator,
                                   fields.Subject, fields.name>>)
        IN exAnnotations[n].annotation_title =
              (IF Truthy(first) THEN first ELSE toLowerCase(TypeTag(exSources[n].record)))

\* C23 amended: annotation_title is the first non-empty value among
\* titleObj.str, content, contentsObj.str, title, author, creator, T, Subject,
\* Title and name, in this order, and the lower-cased type tag when none of
\* them is present.
C23_TitleFromTenCandidates ==
    \A n \in 1..Len(exAnnotations) :
        LET fields == exSources[n].record.fields
            first == FirstTruthy(<<StrOf(fields.titleObj), fields.content,
                                   StrOf(fields.contentsObj), fields.title, fields.author,
                                   fields.creator, fields.T, fields.Subject, fields.Title,
                                   fields.name>>)
        IN exAnnotations[n].annotation_title =
              (IF Truthy(first) THEN first ELSE toLowerCase(TypeTag(exSources[n].record)))

\* an annotation titled by its record's title although the record has an
\* author, and one titled by its lower-cased type tag
C23_Witness ==
    /\ Len(exAnnotations) = 2
    /\ exSources[1].record.fields.title = "ttl"
    /\ exSources[1].record.fields.author = "ann"
    /\ exAnnotations[1].annotation_title = "ttl"
    /\ exSources[2].record.fields = NoFields
    /\ exAnnotations[2].annotation_title = "highlight"

\* ---------------------------------------------------------------------------
\* C24: after any sequence of setAnnotations, addUserAnnotation,
\* updateAnnotationFeedback, updateUserAnnotation, deleteUserAnnotation and
\* clearPdf, for every page p the list annotationsByPage[p] (empty when the
\* key is absent) is the sub-list of the flat annotations whose page is p:
\* same annotations, same relative order, same field values.
C24_ByPageMatchesFlatList ==
    \A p \in Pages \cup DOMAIN stByPage \cup {stAnnotations[i].page : i \in 1..Len(stAnnotations)} :
        PageAnnotations(stByPage, p) = SelectSeq(stAnnotations, LAMBDA a : a.page = p)

\* a user annotation was pushed behind an extracted one of its page and then
\* rewritten by updateUserAnnotation
C24_Witness ==
    /\ stLastOp.op = "updateUserAnnotation"
    /\ stLastOp.target # Absent
    /\ \E p \in DOMAIN stByPage :
          /\ Len(stByPage[p]) >= 2
          /\ ~stByPage[p][1].is_user_created
          /\ stByPage[p][Len(stByPage[p])].is_user_created
          /\ stByPage[p][Len(stByPage[p])].span_text = "edited"

\* ---------------------------------------------------------------------------
\* C25: from the moment handleFileLoad starts loading a file until it has
\* stored the document and annotations or recorded an error, the store's
\* isLoading flag is true.
C25_LoadingWhileInFlight == (LoadsInFlight # {}) => stLoading

\* ---------------------------------------------------------------------------
\* C26: isRendering is true whenever some renderPage call has started and
\* not yet settled, also when calls overlap.
CallsInFlight == {i \in 1..Len(vwCalls) : vwCalls[i].pc # "done"}

C26_RenderingWhileInFlight == (CallsInFlight # {}) => isRendering

\* ---------------------------------------------------------------------------
\* C27: once every in-flight renderPage call has settled, the cached page and
\* viewport (pageViewport, currentPage, currentViewport), which lines 47-59
\* assign together with the canvas dimensions, are those of the most recently
\* requested page number and scale, whatever order the promises resolved in.
AllCallsSettled == vwCalls # << >> /\ CallsInFlight = {}

\* no promise rejected with an error: every call got its page
NoCallFailed == \A i \in 1..Len(vwCalls) : vwCalls[i].err # "Error"

LastCall == vwCalls[Len(vwCalls)]

C27_CacheIsLastRequested ==
    (AllCallsSettled /\ NoCallFailed) =>
        /\ currentPage = LastCall.pageNumber
        /\ currentViewport = PageViewport(LastCall.scale)
        /\ pageViewport = [width |-> PageViewport(LastCall.scale).width,
                           height |-> PageViewport(LastCall.scale).height]

\* ---------------------------------------------------------------------------
\* C28: while a document is loaded, viewerState.current_page stays within
\* 1..pdfMeta.num_pages after any sequence of previous/next page actions,
\* sidebar page clicks, annotation selections and user-annotation creations
\* through the create dialog.
C28_CurrentPageInRange ==
    (stNumPages # 0) => (stViewer.current_page \in 1..stNumPages)

\* a user annotation created through the dialog with an edited page number
\* has been selected, which moved the viewer to its page
C28_Witness ==
    /\ stLastOp.op = "selectAnnotation"
    /\ stLastOp.target # Absent
    /\ stLastOp.target.is_user_created
    /\ stLastOp.target.page = stViewer.current_page
    /\ stLastOp.target.page # 1

\* ---------------------------------------------------------------------------
\* C29: viewerState.current_annotation_id, whenever it is defined, is the id
\* of an annotation present in the flat annotations list.
C29_CurrentAnnotationPresent ==
    (stViewer.current_annotation_id # Undefined) =>
        (FindById(stAnnotations, stViewer.current_annotation_id) # Absent)

\* ---------------------------------------------------------------------------
\* C30: every annotation in the store has its bbox in page-intrinsic
\* (scale 1) units: bbox equals its normalized_bbox multiplied by the page's
\* width and height at scale 1, also when it was created from a text
\* selection made at a zoom scale other than 1.
BboxAtScaleOne(a) ==
    /\ RatEq(Div(a.bbox.x, 1), RatMul(a.normalized_bbox.x, PageW))
    /\ RatEq(Div(a.bbox.y, 1), RatMul(a.normalized_bbox.y, PageH))
    /\ RatEq(Div(a.bbox.w, 1), RatMul(a.normalized_bbox.w, PageW))
    /\ RatEq(Div(a.bbox.h, 1), RatMul(a.normalized_bbox.h, PageH))

====
